---- MODULE Spec2Model ----
(***************************************************************************)
(* Model of the aiobs-ts collector (Collector class, label validation,     *)
(* trace-tree builder, usage/quota client and export pipeline).            *)
(*                                                                         *)
(* JavaScript runs one thread of control; an async method runs             *)
(* synchronously up to its first await and between two awaits, so every    *)
(* action below is one such suspension-free stretch of a handler.  Several *)
(* async calls (chains) may be suspended at the same time.                 *)
(*                                                                         *)
(* A JS Map keeps insertion order: the session registry and the event      *)
(* store are sequences of [key, val] entries.  randomUUID() is a fresh     *)
(* value: identifiers are drawn from counters.  Strings whose characters   *)
(* matter (label keys and values, error messages) are sequences of tokens. *)
(***************************************************************************)
EXTENDS Integers, Sequences, FiniteSets, TLC

VARIABLES sessions, events, activeSession, apiKey, currentSpanId,
          nextSession, nextSpan, chain, last

vars == <<sessions, events, activeSession, apiKey, currentSpanId,
          nextSession, nextSpan, chain, last>>

(***************************************************************************)
(* Bounds of the model.                                                    *)
(***************************************************************************)
MaxSessions == 2
MaxEvents == 1
\* events in a batch handed to buildTraceTree
MaxBatch == 3
\* calls of wrapped functions and wrapped clients
MaxCalls == 3
\* exporters in a CompositeExporter
MaxExporters == 3
\* events in the store when a flush starts
MaxStored == 2

\* the async call chains that may be in flight at once
Chains == {"c1", "c2"}

\* null for identifiers (session ids, span ids) and for strings
NullId == 0
Null == "null"
NoErr == << >>

(***************************************************************************)
(* Insertion-ordered maps (JS Map).                                        *)
(***************************************************************************)
MapKeys(m) == {m[i].key : i \in 1..Len(m)}

MapHas(m, k) == k \in MapKeys(m)

MapGet(m, k) == m[CHOOSE i \in 1..Len(m) : m[i].key = k].val

MapSet(m, k, v) ==
  IF MapHas(m, k)
  THEN [i \in 1..Len(m) |-> IF m[i].key = k THEN [key |-> k, val |-> v] ELSE m[i]]
  ELSE Append(m, [key |-> k, val |-> v])

MapValues(m) == [i \in 1..Len(m) |-> m[i].val]

(***************************************************************************)
(* Error messages, as token sequences; includes() is token membership.     *)
(***************************************************************************)
Includes(msg, tok) == \E i \in 1..Len(msg) : msg[i] = tok

MsgKeyRequired == <<"API key is required">>
MsgInvalidKey == <<"Invalid API key", " provided to aiobs">>
MsgRateLimit == <<"Rate limit", " exceeded">>
MsgValidateHttp(status) == <<"Failed to validate API key: HTTP ", ToString(status)>>
MsgUsageHttp(status) == <<"Failed to record usage: HTTP ", ToString(status)>>
MsgConnect(cause) == <<"Failed to connect to shepherd server: ">> \o cause
MsgTimeout == <<"Failed to connect to shepherd server: ", "timeout">>
MsgNoActive == <<"No active session. Call observe() first.">>
MsgExportFailed(cause) == <<"Custom export handler failed: ">> \o cause

\* `${error}` of a thrown Error: its name, then its message
ErrToString(e) == <<e.name, ": ">> \o e.message

JsError(msg) == [name |-> "Error", message |-> msg]

(***************************************************************************)
(* Strings whose characters matter are sequences of one-character strings. *)
(***************************************************************************)
LowerLetters == <<"a","b","c","d","e","f","g","h","i","j","k","l","m",
                  "n","o","p","q","r","s","t","u","v","w","x","y","z">>
UpperLetters == <<"A","B","C","D","E","F","G","H","I","J","K","L","M",
                  "N","O","P","Q","R","S","T","U","V","W","X","Y","Z">>
Digits == {"0","1","2","3","4","5","6","7","8","9"}

SeqRange(s) == {s[i] : i \in 1..Len(s)}

ToLowerChar(c) ==
  IF c \in SeqRange(UpperLetters)
  THEN LowerLetters[CHOOSE i \in 1..Len(UpperLetters) : UpperLetters[i] = c]
  ELSE c

ToLowerCase(s) == [i \in 1..Len(s) |-> ToLowerChar(s[i])]

StartsWith(s, prefix) ==
  /\ Len(s) >= Len(prefix)
  /\ SubSeq(s, 1, Len(prefix)) = prefix

\* s.slice(n) and s.slice(0, n)
SliceFrom(s, n) == SubSeq(s, n + 1, Len(s))
SliceTo(s, n) == SubSeq(s, 1, IF Len(s) < n THEN Len(s) ELSE n)

(***************************************************************************)
(* Label validation constants.                                             *)
(***************************************************************************)
LABEL_KEY_EXTRA_MAX == 62
LABEL_VALUE_MAX_LENGTH == 256
LABEL_MAX_COUNT == 64
LABEL_RESERVED_PREFIX == <<"a","i","o","b","s","_">>
LABEL_ENV_PREFIX == <<"A","I","O","B","S","_","L","A","B","E","L","_">>

\* /^[a-z][a-z0-9_]{0,62}$/.test(key)
LABEL_KEY_PATTERN(key) ==
  /\ Len(key) >= 1
  /\ key[1] \in SeqRange(LowerLetters)
  /\ Len(key) - 1 <= LABEL_KEY_EXTRA_MAX
  /\ \A i \in 2..Len(key) : key[i] \in SeqRange(LowerLetters) \cup Digits \cup {"_"}

MsgReservedKey == <<"Label key uses reserved prefix">>
MsgInvalidLabelKey == <<"Label key is invalid. Keys must match pattern">>
MsgValueTooLong == <<"Label value exceeds maximum length">>
MsgTooManyLabels == <<"Too many labels">>
MsgCannotAdd == <<"Cannot add label. Maximum already reached.">>
MsgCannotRemove == <<"Cannot remove system label">>

\* validateLabelKey: the message it throws, NoErr when it returns
ValidateLabelKey(key) ==
  IF StartsWith(key, LABEL_RESERVED_PREFIX) THEN MsgReservedKey
  ELSE IF ~LABEL_KEY_PATTERN(key) THEN MsgInvalidLabelKey
  ELSE NoErr

ValidateLabelValue(value) ==
  IF Len(value) > LABEL_VALUE_MAX_LENGTH THEN MsgValueTooLong ELSE NoErr

(***************************************************************************)
(* A labels object is an insertion-ordered list of [key, val] entries      *)
(* (Object.entries order), like a Map.                                     *)
(***************************************************************************)
\* the loop of validateLabels: the error of the first entry that has one, its
\* key checked before its value
ValidateEntries(entries) ==
  LET bad == {i \in 1..Len(entries) :
                \/ ValidateLabelKey(entries[i].key) # NoErr
                \/ ValidateLabelValue(entries[i].val) # NoErr}
  IN IF bad = {} THEN NoErr
     ELSE LET first == CHOOSE i \in bad : \A j \in bad : i <= j
              k == ValidateLabelKey(entries[first].key)
          IN IF k # NoErr THEN k ELSE ValidateLabelValue(entries[first].val)

ValidateLabels(labels) ==
  IF Len(labels) > LABEL_MAX_COUNT THEN MsgTooManyLabels
  ELSE ValidateEntries(labels)

\* Object.assign(target, source) and { ...target, ...source }: the keys of
\* target keep their place and take the value source has for them, the keys
\* only source has follow in source's order
Assign(target, source) ==
  [i \in 1..Len(target) |->
     IF MapHas(source, target[i].key)
     THEN [key |-> target[i].key, val |-> MapGet(source, target[i].key)]
     ELSE target[i]]
  \o SelectSeq(source, LAMBDA e : ~MapHas(target, e.key))

\* delete obj[key]
MapDelete(m, k) == SelectSeq(m, LAMBDA e : e.key # k)

\* getEnvLabels over process.env, a list of [key, val] entries
RECURSIVE GetEnvLabels(_)
GetEnvLabels(env) ==
  IF env = << >> THEN << >>
  ELSE LET e == env[Len(env)]
           rest == GetEnvLabels(SubSeq(env, 1, Len(env) - 1))
           labelKey == ToLowerCase(SliceFrom(e.key, Len(LABEL_ENV_PREFIX)))
       IN IF /\ StartsWith(e.key, LABEL_ENV_PREFIX)
             /\ e.val # << >>
             /\ labelKey # << >>
             /\ LABEL_KEY_PATTERN(labelKey)
          THEN MapSet(rest, labelKey, SliceTo(e.val, LABEL_VALUE_MAX_LENGTH))
          ELSE rest

SDK_VERSION == <<"0",".","1",".","0">>

K_sdk_version == LABEL_RESERVED_PREFIX \o <<"s","d","k","_","v","e","r","s","i","o","n">>
K_node_version == LABEL_RESERVED_PREFIX \o <<"n","o","d","e","_","v","e","r","s","i","o","n">>
K_hostname == LABEL_RESERVED_PREFIX \o <<"h","o","s","t","n","a","m","e">>
K_os == LABEL_RESERVED_PREFIX \o <<"o","s">>

\* getSystemLabels; sys is what the runtime reports (version, hostname, platform)
GetSystemLabels(sys) ==
  << [key |-> K_sdk_version, val |-> SDK_VERSION],
     [key |-> K_node_version, val |-> sys.version],
     [key |-> K_hostname, val |-> SliceTo(sys.hostname, LABEL_VALUE_MAX_LENGTH)],
     [key |-> K_os, val |-> sys.platform] >>

(***************************************************************************)
(* Events.  An Event is a record with the fields provider, span_id,        *)
(* parent_span_id and started_at; a FunctionEvent has name, enh_prompt and *)
(* enh_prompt_id besides.  ('f' in ev) is ("f" \in DOMAIN ev).  The fields *)
(* no code of the collector reads (api, request, response, error, ...)     *)
(* are left out.                                                           *)
(***************************************************************************)
Has(obj, field) == field \in DOMAIN obj

Truthy(id) == id # NullId

\* { ...ev, session_id: sessionId }
Observed(ev, sessionId) == [session_id |-> sessionId] @@ ev

\* (ev as FunctionEvent) test of flush()
IsFunctionEvent(ev) == Has(ev, "name") /\ ev.provider = "function"

(***************************************************************************)
(* buildTraceTree.  Nodes are shared objects in the code: the first pass   *)
(* keeps one node per span id (the last event carrying it), the second     *)
(* pass pushes, for each event in order, either that shared node or a      *)
(* fresh one onto the children of its parent's node or onto the roots.     *)
(* An item is the index of the event the node's data comes from, with      *)
(* shared = TRUE when it is the span's node.                               *)
(***************************************************************************)
EventType(ev) ==
  IF Has(ev, "provider") /\ ev.provider = "function" THEN "function" ELSE "provider"

\* first pass: eventsBySpan, as span id -> index of the event whose data it holds
SpanKeys(evs) == {evs[i].span_id : i \in {j \in 1..Len(evs) : Truthy(evs[j].span_id)}}

EventsBySpan(evs) ==
  [sp \in SpanKeys(evs) |->
     CHOOSE i \in 1..Len(evs) :
       /\ evs[i].span_id = sp
       /\ \A j \in 1..Len(evs) : evs[j].span_id = sp => j <= i]

\* second pass: the node event i contributes
ItemOf(evs, i) ==
  IF Truthy(evs[i].span_id)
  THEN [idx |-> EventsBySpan(evs)[evs[i].span_id], shared |-> TRUE]
  ELSE [idx |-> i, shared |-> FALSE]

HasKnownParent(evs, i) ==
  Truthy(evs[i].parent_span_id) /\ evs[i].parent_span_id \in SpanKeys(evs)

RECURSIVE PushedTo(_, _, _)
\* the items pushed, in event order up to n, onto roots (sp = NullId) or onto
\* the children of the node of span sp
PushedTo(evs, sp, n) ==
  IF n = 0 THEN << >>
  ELSE LET before == PushedTo(evs, sp, n - 1)
           goes == IF sp = NullId THEN ~HasKnownParent(evs, n)
                   ELSE HasKnownParent(evs, n) /\ evs[n].parent_span_id = sp
       IN IF goes THEN Append(before, ItemOf(evs, n)) ELSE before

Roots(evs) == PushedTo(evs, NullId, Len(evs))

ChildrenOf(evs, item) ==
  IF item.shared THEN PushedTo(evs, evs[item.idx].span_id, Len(evs)) ELSE << >>

RECURSIVE InsertByTime_Unstable(_, _, _)
InsertByTime_Unstable(evs, sorted, item) ==
  IF sorted = << >> THEN <<item>>
  ELSE IF evs[sorted[Len(sorted)].idx].started_at < evs[item.idx].started_at
       THEN Append(sorted, item)
       ELSE Append(InsertByTime_Unstable(evs, SubSeq(sorted, 1, Len(sorted) - 1), item),
                   sorted[Len(sorted)])

\* nodes.sort((a, b) => a.started_at - b.started_at): Array.prototype.sort is stable
RECURSIVE InsertByTime(_, _, _)
InsertByTime(evs, sorted, item) ==
  IF sorted = << >> THEN <<item>>
  ELSE IF evs[sorted[Len(sorted)].idx].started_at <= evs[item.idx].started_at
       THEN Append(sorted, item)
       ELSE Append(InsertByTime(evs, SubSeq(sorted, 1, Len(sorted) - 1), item),
                   sorted[Len(sorted)])

RECURSIVE SortItems(_, _)
SortItems(evs, items) ==
  IF items = << >> THEN << >>
  ELSE InsertByTime(evs, SortItems(evs, SubSeq(items, 1, Len(items) - 1)),
                    items[Len(items)])

\* sortByTime recurses forever (stack overflow) when a node is reachable from
\* itself; fuel bounds the depth of a finite tree by the number of events
RECURSIVE SortOverflows(_, _, _)
SortOverflows(evs, items, fuel) ==
  \E k \in 1..Len(items) :
    LET ch == ChildrenOf(evs, items[k])
    IN ch # << >> /\ (fuel = 0 \/ SortOverflows(evs, ch, fuel - 1))

RECURSIVE SortByTime(_, _)
\* the sorted forest below a list of items, as nested TraceNodes
SortByTime(evs, items) ==
  LET sorted == SortItems(evs, items)
  IN [k \in 1..Len(sorted) |->
        [event_type |-> EventType(evs[sorted[k].idx]),
         children |-> SortByTime(evs, ChildrenOf(evs, sorted[k]))]
        @@ evs[sorted[k].idx]]

BuildTraceTree(evs) ==
  IF Len(evs) = 0 THEN << >> ELSE SortByTime(evs, Roots(evs))

\* buildTraceTree throws RangeError (unbounded recursion of sortByTime)
BuildTraceTreeThrows(evs) == SortOverflows(evs, Roots(evs), Len(evs))

RECURSIVE Walk(_)
\* extractEnhPromptTraces: pre-order walk
Walk(nodes) ==
  IF nodes = << >> THEN << >>
  ELSE LET node == Head(nodes)
           own == IF /\ Has(node, "enh_prompt")
                     /\ node.enh_prompt = TRUE
                     /\ Truthy(node.enh_prompt_id)
                  THEN <<node.enh_prompt_id>> ELSE << >>
       IN own \o Walk(node.children) \o Walk(Tail(nodes))

ExtractEnhPromptTraces(traceTree) == Walk(traceTree)

(***************************************************************************)
(* A nullable object (labels, trace_tree, enh_prompt_traces, a result).    *)
(***************************************************************************)
NullObj == [null |-> TRUE]
Some(v) == [null |-> FALSE, v |-> v]
IsNull(x) == x.null
\* x ?? d
OrElse(x, d) == IF x.null THEN d ELSE x.v

\* a ?? b on strings
Coalesce(a, b) == IF a # Null THEN a ELSE b

(***************************************************************************)
(* Collector state.                                                        *)
(*   sessions       Map<string, Session>, Session = [id, ended_at, labels] *)
(*                  (name, started_at and meta are written once and never  *)
(*                  read by the collector: left out)                       *)
(*   events         Map<string, Array<Event | FunctionEvent>>              *)
(*   activeSession  session id or NullId                                   *)
(*   apiKey         string or Null                                         *)
(*   currentSpanId  the module-level span slot                             *)
(*   nextSession, nextSpan   the next values randomUUID() hands out        *)
(*   chain          the async calls in flight: one record per chain, with  *)
(*                  its position (pc), its locals and what it has done     *)
(*                  so far (files written, requests sent, clearings)       *)
(*   last           the step that ran last: the operation and the stretch  *)
(*                  of it that ran (stage), whether it returned, threw or  *)
(*                  suspended, the error thrown, the argument or response  *)
(*                  it ran with (input), the record of its call            *)
(***************************************************************************)
NullTime == NullId

NoPayload == [sessions |-> << >>, events |-> << >>, function_events |-> << >>,
              trace_tree |-> NullObj, enh_prompt_traces |-> NullObj, version |-> 1]

IdleChain ==
  [pc |-> "idle", op |-> "none", result |-> NullObj, frames |-> << >>,
   labels |-> NullObj, persist |-> FALSE, exporter |-> FALSE,
   payload |-> NoPayload, traceCount |-> 0,
   clears |-> 0, traceCalls |-> 0, usageCalls |-> << >>, wrote |-> << >>]

Free(t) == chain[t].pc = "idle"

\* what a step leaves in last; a synchronous operation has no call record
Step(op, stage, outcome, err, input, c) ==
  [op |-> op, stage |-> stage, outcome |-> outcome, err |-> err,
   input |-> input, call |-> c]

Sync(op, err, input) ==
  Step(op, "call", IF err = NoErr THEN "returned" ELSE "threw", err, input, IdleChain)

Init ==
  /\ sessions = << >>
  /\ events = << >>
  /\ activeSession = NullId
  /\ apiKey = Null
  /\ currentSpanId = NullId
  /\ nextSession = 1
  /\ nextSpan = 1
  /\ chain = [t \in Chains |-> IdleChain]
  /\ last = Sync("new", NoErr, NullObj)

(***************************************************************************)
(* fetch(): a response [status, body] or a rejection [name, message].      *)
(***************************************************************************)
HttpResponse(status, body) == [kind |-> "http", status |-> status, body |-> body]
FetchError(name, msg) == [kind |-> "error", name |-> name, message |-> msg]
ResponseOk(r) == r.status >= 200 /\ r.status <= 299

\* a body response.json() parses: { success, usage: { is_rate_limited } }
UsageBody(success, hasUsage, limited) ==
  [json |-> TRUE, success |-> success, has_usage |-> hasUsage, is_rate_limited |-> limited]

\* a body response.json() rejects
NotJson == [json |-> FALSE, success |-> FALSE, has_usage |-> FALSE, is_rate_limited |-> FALSE]

SyntaxError == [name |-> "SyntaxError", message |-> <<"Unexpected token">>]

\* validateApiKey, from the response on: the message it throws, NoErr when it returns
ValidateApiKeyTry(r) ==
  IF r.kind = "error" THEN [name |-> r.name, message |-> r.message]
  ELSE IF ~ResponseOk(r)
       THEN IF r.status = 401 THEN JsError(MsgInvalidKey)
            ELSE JsError(MsgValidateHttp(r.status))
  ELSE IF ~r.body.json THEN SyntaxError
  ELSE IF r.body.success /\ r.body.has_usage /\ r.body.is_rate_limited
       THEN JsError(MsgRateLimit)
  ELSE JsError(NoErr)

ValidateApiKeyCatch(error) ==
  IF Includes(error.message, "Invalid API key") \/ Includes(error.message, "Rate limit")
  THEN error.message
  ELSE IF error.name = "AbortError" THEN MsgTimeout
  ELSE MsgConnect(ErrToString(error))

ValidateApiKey(r) ==
  LET error == ValidateApiKeyTry(r)
  IN IF error.message = NoErr THEN NoErr ELSE ValidateApiKeyCatch(error)

\* recordUsage, from the response on
RecordUsageTry(r) ==
  IF r.kind = "error" THEN [name |-> r.name, message |-> r.message]
  ELSE IF ~ResponseOk(r)
       THEN IF r.status = 401 THEN JsError(MsgInvalidKey)
            ELSE IF r.status = 429
                 THEN IF r.body.json THEN JsError(MsgRateLimit) ELSE SyntaxError
            ELSE JsError(MsgUsageHttp(r.status))
  ELSE IF ~r.body.json THEN SyntaxError
  ELSE JsError(NoErr)

RecordUsageCatch(error) ==
  IF Includes(error.message, "Invalid API key") \/ Includes(error.message, "Rate limit")
  THEN error.message
  ELSE MsgConnect(ErrToString(error))

RecordUsage(r) ==
  LET error == RecordUsageTry(r)
  IN IF error.message = NoErr THEN NoErr ELSE RecordUsageCatch(error)

\* flushToServer, from the response on: a non-401 failure is logged and swallowed
FlushToServerTry(r) ==
  IF r.kind = "error" THEN [name |-> r.name, message |-> r.message]
  ELSE IF ~ResponseOk(r)
       THEN IF r.status = 401 THEN JsError(MsgInvalidKey) ELSE JsError(NoErr)
  ELSE IF ~r.body.json THEN SyntaxError
  ELSE JsError(NoErr)

\* a flushToServer that rethrows whatever it caught
FlushToServerCatch_Rethrows(error) == error.message

FlushToServerCatch(error) ==
  IF Includes(error.message, "Invalid API key") THEN error.message ELSE NoErr

FlushToServer(r) ==
  LET error == FlushToServerTry(r)
  IN IF error.message = NoErr THEN NoErr ELSE FlushToServerCatch(error)

(***************************************************************************)
(* Collector.observe: up to the await of validateApiKey, and from there on.*)
(***************************************************************************)
\* !key
Falsy(key) == key \in {Null, ""}

SetLast(op, err) == last' = Sync(op, err, NullObj)

\* observe() calls in flight
Validating == {t \in Chains : chain[t].pc = "validating"}

ObserveStart(t, apiKeyOpt, envKey, labels) ==
  /\ Free(t)
  /\ nextSession + Cardinality(Validating) <= MaxSessions
  /\ apiKey' = Coalesce(apiKeyOpt, Coalesce(envKey, Null))
  /\ IF Falsy(apiKey')
     THEN /\ UNCHANGED chain
          /\ last' = Step("observe", "start", "threw", MsgKeyRequired, NullObj,
                          [IdleChain EXCEPT !.op = "observe", !.labels = labels])
     ELSE /\ chain' = [chain EXCEPT ![t] = [IdleChain EXCEPT !.pc = "validating",
                                                             !.op = "observe",
                                                             !.labels = labels]]
          /\ last' = Step("observe", "start", "suspended", NoErr, NullObj, chain'[t])
  /\ UNCHANGED <<sessions, events, activeSession, currentSpanId, nextSession, nextSpan>>

\* mergedLabels of observe(): system < env vars < explicit
MergedLabels(sys, env, labels) ==
  LET base == Assign(GetSystemLabels(sys), GetEnvLabels(env))
  IN IF IsNull(labels) THEN base ELSE Assign(base, labels.v)

NewSession(sessionId, mergedLabels) ==
  [id |-> sessionId, ended_at |-> NullTime,
   labels |-> IF Len(mergedLabels) > 0 THEN Some(mergedLabels) ELSE NullObj]

\* a registration that ends the session it replaces
Register_EndsPrevious(session) ==
  /\ sessions' = MapSet(IF MapHas(sessions, activeSession)
                        THEN MapSet(sessions, activeSession,
                                    [MapGet(sessions, activeSession) EXCEPT !.ended_at = 1])
                        ELSE sessions,
                        session.id, session)
  /\ events' = MapSet(events, session.id, << >>)
  /\ activeSession' = session.id

\* a registration that creates no event batch
Register_NoBatch(session) ==
  /\ sessions' = MapSet(sessions, session.id, session)
  /\ events' = events
  /\ activeSession' = session.id

\* the three assignments that register a session
Register(session) ==
  /\ sessions' = MapSet(sessions, session.id, session)
  /\ events' = MapSet(events, session.id, << >>)
  /\ activeSession' = session.id

\* an observe() that registers the session before it validates the labels
ObserveFailed_Registered(c, r, err) ==
  /\ last' = Step("observe", "resume", "threw", err, r, c)
  /\ IF ValidateApiKey(r) = NoErr
     THEN /\ sessions' = MapSet(sessions, nextSession, NewSession(nextSession, << >>))
          /\ events' = MapSet(events, nextSession, << >>)
          /\ activeSession' = nextSession
          /\ nextSession' = nextSession + 1
     ELSE UNCHANGED <<sessions, events, activeSession, nextSession>>

\* observe() throws err after the validation: nothing was registered
ObserveFailed(c, r, err) ==
  /\ last' = Step("observe", "resume", "threw", err, r, c)
  /\ UNCHANGED <<sessions, events, activeSession, nextSession>>

ObserveResume(t, r, sys, env) ==
  /\ chain[t].pc = "validating"
  /\ LET c == chain[t]
         verr == ValidateApiKey(r)
         lerr == IF IsNull(c.labels) THEN NoErr ELSE ValidateLabels(c.labels.v)
         err == IF verr # NoErr THEN verr ELSE lerr
     IN IF err # NoErr
        THEN ObserveFailed(c, r, err)
        ELSE /\ Register(NewSession(nextSession, MergedLabels(sys, env, c.labels)))
             /\ nextSession' = nextSession + 1
             /\ last' = Step("observe", "resume", "returned", NoErr, r,
                             [c EXCEPT !.result = Some(nextSession)])
  /\ chain' = [chain EXCEPT ![t] = IdleChain]
  /\ UNCHANGED <<apiKey, currentSpanId, nextSpan>>

(***************************************************************************)
(* Collector.end, recordEvent, reset, the span slot.                       *)
(***************************************************************************)
\* an end() that sets no ended_at
Ended_KeepsOpen(now) == sessions

\* sessions after end() at time now
Ended(now) ==
  IF MapHas(sessions, activeSession)
  THEN MapSet(sessions, activeSession,
              [MapGet(sessions, activeSession) EXCEPT !.ended_at = now])
  ELSE sessions

\* an end() that discards the events of the session it ends
End_DropsBatch(now) ==
  /\ IF ~Truthy(activeSession)
     THEN UNCHANGED <<sessions, events, activeSession>>
     ELSE /\ sessions' = Ended(now)
          /\ events' = MapSet(events, activeSession, << >>)
          /\ activeSession' = NullId
  /\ SetLast("end", NoErr)
  /\ UNCHANGED <<apiKey, currentSpanId, nextSession, nextSpan, chain>>

End(now) ==
  /\ IF ~Truthy(activeSession)
     THEN UNCHANGED <<sessions, activeSession>>
     ELSE /\ sessions' = Ended(now)
          /\ activeSession' = NullId
  /\ SetLast("end", NoErr)
  /\ UNCHANGED <<events, apiKey, currentSpanId, nextSession, nextSpan, chain>>

\* a recordEvent that appends to the first batch of the store
Recorded_FirstBatch(payload) ==
  IF Truthy(activeSession) /\ Len(events) > 0
  THEN MapSet(events, events[1].key, Append(events[1].val, payload))
  ELSE events

\* events after recordEvent(payload)
Recorded(payload) ==
  IF Truthy(activeSession) /\ MapHas(events, activeSession)
  THEN MapSet(events, activeSession, Append(MapGet(events, activeSession), payload))
  ELSE events

RecordEvent(payload) ==
  /\ nextSpan <= MaxEvents
  /\ nextSpan' = nextSpan + 1
  /\ events' = Recorded(payload)
  /\ last' = Sync("recordEvent", NoErr, payload)
  /\ UNCHANGED <<sessions, activeSession, apiKey, currentSpanId, nextSession, chain>>

\* a slot that reads as empty whatever was stored
GetCurrentSpanId_Unset == NullId

GetCurrentSpanId == currentSpanId

\* a setCurrentSpanId that returns the value it has just stored
SetSpan_ReturnsNew(spanId) ==
  /\ currentSpanId' = spanId
  /\ last' = Step("setCurrentSpanId", "call", "returned", NoErr, Some(spanId),
                  [IdleChain EXCEPT !.result = Some(spanId)])

\* the body of setCurrentSpanId: previous is read, the slot overwritten
SetSpan(spanId) ==
  /\ currentSpanId' = spanId
  /\ last' = Step("setCurrentSpanId", "call", "returned", NoErr, Some(spanId),
                  [IdleChain EXCEPT !.result = Some(currentSpanId)])

SetCurrentSpanId(spanId) ==
  /\ SetSpan(spanId)
  /\ UNCHANGED <<sessions, events, activeSession, apiKey, nextSession, nextSpan, chain>>

Reset ==
  /\ activeSession' = NullId
  /\ sessions' = << >>
  /\ events' = << >>
  /\ apiKey' = Null
  /\ currentSpanId' = NullId
  /\ SetLast("reset", NoErr)
  /\ UNCHANGED <<nextSession, nextSpan, chain>>

(***************************************************************************)
(* Label operations.  Each is one synchronous call: it either throws (the  *)
(* message is kept in last.err) or stores the session with its new labels. *)
(***************************************************************************)
MsgNoSession == <<"TypeError: Cannot read properties of undefined">>

\* the property names a labels object inherits from Object.prototype that are
\* spelled like a label key; (key in obj) sees them
K_constructor == <<"c","o","n","s","t","r","u","c","t","o","r">>
InheritedKeys == {K_constructor}

\* key in obj
JsIn(key, obj) == MapHas(obj, key) \/ key \in InheritedKeys

IsReservedEntry(e) == StartsWith(e.key, LABEL_RESERVED_PREFIX)

SetLabelsResult_LeftBiased(currentLabels, labels, merge) ==
  IF merge THEN Assign(labels, currentLabels)
  ELSE Assign(SelectSeq(currentLabels, IsReservedEntry), labels)

\* currentLabels of setLabels before the count check
SetLabelsResult(currentLabels, labels, merge) ==
  IF merge THEN Assign(currentLabels, labels)
  ELSE Assign(SelectSeq(currentLabels, IsReservedEntry), labels)

\* the message setLabels throws, NoErr when it stores the labels
SetLabelsError(labels, merge) ==
  IF ~Truthy(activeSession) THEN MsgNoActive
  ELSE IF ValidateLabels(labels) # NoErr THEN ValidateLabels(labels)
  ELSE IF ~MapHas(sessions, activeSession) THEN MsgNoSession
  ELSE IF Len(SetLabelsResult(OrElse(MapGet(sessions, activeSession).labels, << >>),
                              labels, merge)) > LABEL_MAX_COUNT
       THEN MsgTooManyLabels
  ELSE NoErr

WithLabels(newLabels) ==
  MapSet(sessions, activeSession,
         [MapGet(sessions, activeSession) EXCEPT !.labels = newLabels])

SetLabels_StoresBeforeCount(labels, merge) ==
  /\ LET err == SetLabelsError(labels, merge)
     IN /\ last' = Sync("setLabels", err, [labels |-> labels, merge |-> merge])
        /\ IF err \notin {NoErr, MsgTooManyLabels} THEN UNCHANGED sessions
           ELSE sessions' = WithLabels(Some(SetLabelsResult(
                  OrElse(MapGet(sessions, activeSession).labels, << >>), labels, merge)))
  /\ UNCHANGED <<events, activeSession, apiKey, currentSpanId, nextSession, nextSpan, chain>>

SetLabels(labels, merge) ==
  /\ LET err == SetLabelsError(labels, merge)
     IN /\ last' = Sync("setLabels", err, [labels |-> labels, merge |-> merge])
        /\ IF err # NoErr THEN UNCHANGED sessions
           ELSE sessions' = WithLabels(Some(SetLabelsResult(
                  OrElse(MapGet(sessions, activeSession).labels, << >>), labels, merge)))
  /\ UNCHANGED <<events, activeSession, apiKey, currentSpanId, nextSession, nextSpan, chain>>

AddLabelError(key, value) ==
  IF ~Truthy(activeSession) THEN MsgNoActive
  ELSE IF ValidateLabelKey(key) # NoErr THEN ValidateLabelKey(key)
  ELSE IF ValidateLabelValue(value) # NoErr THEN ValidateLabelValue(value)
  ELSE IF ~MapHas(sessions, activeSession) THEN MsgNoSession
  ELSE LET currentLabels == OrElse(MapGet(sessions, activeSession).labels, << >>)
       IN IF ~JsIn(key, currentLabels) /\ Len(currentLabels) >= LABEL_MAX_COUNT
          THEN MsgCannotAdd ELSE NoErr

AddLabel(key, value) ==
  /\ LET err == AddLabelError(key, value)
     IN /\ last' = Sync("addLabel", err, [key |-> key, val |-> value])
        /\ IF err # NoErr THEN UNCHANGED sessions
           ELSE sessions' = WithLabels(Some(MapSet(
                  OrElse(MapGet(sessions, activeSession).labels, << >>), key, value)))
  /\ UNCHANGED <<events, activeSession, apiKey, currentSpanId, nextSession, nextSpan, chain>>

RemoveLabelError_AllowsSystem(key) ==
  IF ~Truthy(activeSession) THEN MsgNoActive
  ELSE IF ~MapHas(sessions, activeSession) THEN MsgNoSession
  ELSE NoErr

RemoveLabelError_NoActiveCheck(key) ==
  IF StartsWith(key, LABEL_RESERVED_PREFIX) THEN MsgCannotRemove
  ELSE IF ~MapHas(sessions, activeSession) THEN MsgNoSession
  ELSE NoErr

RemoveLabelError(key) ==
  IF ~Truthy(activeSession) THEN MsgNoActive
  ELSE IF StartsWith(key, LABEL_RESERVED_PREFIX) THEN MsgCannotRemove
  ELSE IF ~MapHas(sessions, activeSession) THEN MsgNoSession
  ELSE NoErr

\* the labels removeLabel stores
Removed(labels, key) ==
  LET currentLabels == MapDelete(labels, key)
  IN IF Len(currentLabels) > 0 THEN Some(currentLabels) ELSE NullObj

RemoveLabel(key) ==
  /\ LET err == RemoveLabelError(key)
     IN /\ last' = Sync("removeLabel", err, [key |-> key])
        /\ IF err # NoErr THEN UNCHANGED sessions
           ELSE LET session == MapGet(sessions, activeSession)
                IN IF ~IsNull(session.labels) /\ JsIn(key, session.labels.v)
                   THEN sessions' = WithLabels(Removed(session.labels.v, key))
                   ELSE UNCHANGED sessions
  /\ UNCHANGED <<events, activeSession, apiKey, currentSpanId, nextSession, nextSpan, chain>>

GetLabelsError ==
  IF ~Truthy(activeSession) THEN MsgNoActive
  ELSE IF ~MapHas(sessions, activeSession) THEN MsgNoSession
  ELSE NoErr

GetLabels ==
  /\ last' = Step("getLabels", "call",
                  IF GetLabelsError = NoErr THEN "returned" ELSE "threw",
                  GetLabelsError, NullObj,
                  [IdleChain EXCEPT !.result =
                     IF GetLabelsError # NoErr THEN NullObj
                     ELSE Some(OrElse(MapGet(sessions, activeSession).labels, << >>))])
  /\ UNCHANGED <<sessions, events, activeSession, apiKey, currentSpanId,
                 nextSession, nextSpan, chain>>

(***************************************************************************)
(* CustomExporter.export: what it makes of its handler's outcome.  The     *)
(* outcome is [kind, success]: "throw", "undefined", "result" (an object   *)
(* with a boolean success), "dict" (an object without one), "function",    *)
(* "primitive" (on which the in operator throws a TypeError).              *)
(***************************************************************************)
CreateExportResult(success, metadata) == [success |-> success, metadata |-> metadata]

ExportReturn(result) == [threw |-> FALSE, result |-> result, err |-> NoErr]
ExportThrow(cause) == [threw |-> TRUE, result |-> NullObj, err |-> MsgExportFailed(cause)]

\* an export() that turns a throwing handler into a failure result
CustomExport_Swallows(h) ==
  IF h.kind \in {"throw", "primitive"}
  THEN ExportReturn(Some(CreateExportResult(FALSE, "handler")))
  ELSE IF h.kind = "result" THEN ExportReturn(Some([success |-> h.success, metadata |-> "given"]))
  ELSE ExportReturn(Some(CreateExportResult(TRUE, "handler")))

CustomExport(h) ==
  IF h.kind = "throw" THEN ExportThrow(<<"Error: handler">>)
  ELSE IF h.kind = "undefined" THEN ExportReturn(Some(CreateExportResult(TRUE, "handler")))
  ELSE IF h.kind = "primitive" THEN ExportThrow(<<"TypeError: Cannot use 'in' operator">>)
  ELSE IF h.kind = "result" THEN ExportReturn(Some([success |-> h.success, metadata |-> "given"]))
  \* r.success !== false holds of a dict: a boolean success took the branch before
  ELSE IF h.kind = "dict" THEN ExportReturn(Some(CreateExportResult(TRUE, "dict")))
  ELSE ExportReturn(Some(CreateExportResult(TRUE, "result")))

(***************************************************************************)
(* Collector.flush.                                                        *)
(***************************************************************************)
RECURSIVE ObservedAll(_)
\* every stored event with its session id, in the iteration order of this.events
ObservedAll(store) ==
  IF store = << >> THEN << >>
  ELSE [i \in 1..Len(Head(store).val) |-> Observed(Head(store).val[i], Head(store).key)]
       \o ObservedAll(Tail(store))

StandardEvents == SelectSeq(ObservedAll(events), LAMBDA ev : ~IsFunctionEvent(ev))
FunctionEvents == SelectSeq(ObservedAll(events), IsFunctionEvent)
\* a batch in the order in which recordEvent received the events
AllEvents_AsRecorded == ObservedAll(events)

AllEvents == StandardEvents \o FunctionEvents

TraceCount == Len(StandardEvents) + Len(FunctionEvents)

ExportData(includeTraceTree) ==
  LET traceTree == IF includeTraceTree THEN Some(BuildTraceTree(AllEvents)) ELSE NullObj
      enhPromptTraces == IF includeTraceTree /\ ~IsNull(traceTree)
                         THEN Some(ExtractEnhPromptTraces(traceTree.v)) ELSE NullObj
  IN [sessions |-> MapValues(sessions),
      events |-> StandardEvents,
      function_events |-> FunctionEvents,
      trace_tree |-> traceTree,
      enh_prompt_traces |-> IF ~IsNull(enhPromptTraces) /\ Len(enhPromptTraces.v) > 0
                            THEN enhPromptTraces ELSE NullObj,
      version |-> 1]

DefaultFilename ==
  IF Truthy(activeSession) THEN ToString(activeSession) \o ".json"
  ELSE IF Len(sessions) > 0 THEN ToString(sessions[1].key) \o ".json"
  ELSE "llm_observability.json"

OutputPath(outPath, envOut) == Coalesce(outPath, Coalesce(envOut, DefaultFilename))

\* a clearing that forgets the event store
Clear_KeepsEvents ==
  /\ sessions' = << >>
  /\ events' = events
  /\ activeSession' = NullId

\* the clearing of the in-memory store
Clear ==
  /\ sessions' = << >>
  /\ events' = << >>
  /\ activeSession' = NullId

Keep == UNCHANGED <<sessions, events, activeSession>>

\* flush() returns c.result, having cleared the store
Finish(t, c, stage, input) ==
  /\ Clear
  /\ chain' = [chain EXCEPT ![t] = IdleChain]
  /\ last' = Step("flush", stage, "returned", NoErr, input, [c EXCEPT !.clears = @ + 1])

\* flush() throws err
Fail(t, c, stage, input, err) ==
  /\ Keep
  /\ chain' = [chain EXCEPT ![t] = IdleChain]
  /\ last' = Step("flush", stage, "threw", err, input, c)

\* what a suspended flush() still holds: exportData is read for the last time
\* when the remote flush is issued
Held(c) == IF c.pc = "exporting" THEN c ELSE [c EXCEPT !.payload = NoPayload]

\* flush() awaits
Suspend(t, c, stage, input) ==
  /\ Keep
  /\ chain' = [chain EXCEPT ![t] = Held(c)]
  /\ last' = Step("flush", stage, "suspended", NoErr, input, c)

\* a usage report sent for an empty payload too
ToUsage_EmptyToo(t, c, stage, input) ==
  IF ~Falsy(apiKey)
  THEN Suspend(t, [c EXCEPT !.pc = "usage", !.usageCalls = Append(@, c.traceCount)],
               stage, input)
  ELSE Finish(t, c, stage, input)

\* if (this.apiKey && traceCount > 0) await this.recordUsage(traceCount); then clear
ToUsage(t, c, stage, input) ==
  IF ~Falsy(apiKey) /\ c.traceCount > 0
  THEN Suspend(t, [c EXCEPT !.pc = "usage", !.usageCalls = Append(@, c.traceCount)],
               stage, input)
  ELSE Finish(t, c, stage, input)

\* if (this.apiKey) await this.flushToServer(exportData); then the usage report
ToServer(t, c, stage, input) ==
  IF ~Falsy(apiKey)
  THEN Suspend(t, [c EXCEPT !.pc = "remote", !.traceCalls = @ + 1], stage, input)
  ELSE ToUsage(t, c, stage, input)

\* the local stage of flush() without exporter: the file, when persist
Persisted(c, persist, outputPath) ==
  IF persist
  THEN [c EXCEPT !.wrote = Append(@, outputPath), !.result = Some(outputPath)]
  ELSE c

FlushStart(t, outPath, envOut, includeTraceTree, persist, exporter) ==
  /\ Free(t)
  /\ LET exportData == ExportData(includeTraceTree)
         c == [IdleChain EXCEPT !.op = "flush", !.payload = exportData,
                                !.traceCount = TraceCount,
                                !.persist = persist, !.exporter = exporter]
     IN IF includeTraceTree /\ BuildTraceTreeThrows(AllEvents)
        THEN Fail(t, [c EXCEPT !.payload = NoPayload], "start", NullObj, <<"RangeError">>)
        ELSE IF exporter
        THEN Suspend(t, [c EXCEPT !.pc = "exporting"], "start", NullObj)
        ELSE ToServer(t, Persisted(c, persist, OutputPath(outPath, envOut)),
                      "start", NullObj)
  /\ UNCHANGED <<apiKey, currentSpanId, nextSession, nextSpan>>

\* the exporter's promise settles
ExporterSettled(t, h) ==
  /\ chain[t].pc = "exporting"
  /\ LET out == CustomExport(h)
     IN IF out.threw
        THEN Fail(t, chain[t], "exporter", h, out.err)
        ELSE ToServer(t, [chain[t] EXCEPT !.result = out.result], "exporter", h)
  /\ UNCHANGED <<apiKey, currentSpanId, nextSession, nextSpan>>

\* the POST /v1/traces settles
TracesSettled(t, r) ==
  /\ chain[t].pc = "remote"
  /\ LET err == FlushToServer(r)
     IN IF err # NoErr
        THEN Fail(t, chain[t], "traces", r, err)
        ELSE ToUsage(t, chain[t], "traces", r)
  /\ UNCHANGED <<apiKey, currentSpanId, nextSession, nextSpan>>

\* the POST /v1/usage settles
UsageSettled(t, r) ==
  /\ chain[t].pc = "usage"
  /\ LET err == RecordUsage(r)
     IN IF err # NoErr
        THEN Fail(t, chain[t], "usage", r, err)
        ELSE Finish(t, chain[t], "usage", r)
  /\ UNCHANGED <<apiKey, currentSpanId, nextSession, nextSpan>>

(***************************************************************************)
(* The inputs the operations are called with.                              *)
(***************************************************************************)
Times == {1}

ApiKeyOptions == {Null, "k1"}
EnvApiKeys == {Null}

L_env == [key |-> <<"e","n","v">>, val |-> <<"d","e","v">>]
L_team == [key |-> <<"t","e","a","m">>, val |-> <<"a">>]
L_badkey == [key |-> <<"I","n","v","a","l","i","d","-","K","e","y">>, val |-> <<"x">>]
L_reserved == [key |-> LABEL_RESERVED_PREFIX \o <<"c","u","s","t","o","m">>, val |-> <<"x">>]

ObserveLabels == {NullObj, Some(<<L_env, L_badkey>>)}

SysInfo == [version |-> <<"v","2","0">>, hostname |-> <<"h","o","s","t">>,
            platform |-> <<"l","i","n","u","x">>]

E_team == [key |-> LABEL_ENV_PREFIX \o <<"T","E","A","M">>, val |-> <<"b">>]
Environments == {<< >>}

NoBody == UsageBody(FALSE, FALSE, FALSE)

FetchErrors == {FetchError("TypeError", <<"fetch failed">>)}

ValidateResponses ==
  {HttpResponse(200, UsageBody(TRUE, TRUE, FALSE)),
   HttpResponse(200, UsageBody(TRUE, TRUE, TRUE)),
   HttpResponse(401, NoBody), HttpResponse(500, NoBody)} \cup FetchErrors

UsageResponses ==
  {HttpResponse(200, UsageBody(TRUE, TRUE, FALSE)),
   HttpResponse(401, NoBody), HttpResponse(429, NoBody), HttpResponse(429, NotJson),
   HttpResponse(500, NoBody)} \cup FetchErrors

\* AbortSignal.timeout() rejects the fetch with a TimeoutError
TimeoutError == FetchError("TimeoutError", <<"The operation was aborted due to timeout">>)

TracesResponses ==
  {HttpResponse(200, NoBody), HttpResponse(200, NotJson), HttpResponse(401, NoBody),
   HttpResponse(500, NoBody), TimeoutError} \cup FetchErrors

HandlerOutcomes ==
  {[kind |-> "throw"], [kind |-> "undefined"],
   [kind |-> "result", success |-> FALSE]}

\* the events a provider wrapper / an observe()d function hands to recordEvent
ProviderEvent(sp, parent, ts) ==
  [provider |-> "openai", span_id |-> sp, parent_span_id |-> parent, started_at |-> ts]

FunctionEvent(sp, parent, ts, enh) ==
  [provider |-> "function", name |-> "f", span_id |-> sp, parent_span_id |-> parent,
   started_at |-> ts, enh_prompt |-> enh, enh_prompt_id |-> IF enh THEN sp ELSE NullId]

NewEvents ==
  {ProviderEvent(nextSpan, currentSpanId, ts) : ts \in Times}
  \cup {FunctionEvent(nextSpan, currentSpanId, ts, TRUE) : ts \in Times}

\* flush options: <<path, LLM_OBS_OUT, includeTraceTree, persist, exporter>>
FlushOptions ==
  {<<Null, Null, TRUE, TRUE, FALSE>>, <<Null, Null, TRUE, FALSE, FALSE>>,
   <<Null, Null, TRUE, TRUE, TRUE>>}

\* one flush() and one observe() are in flight at a time
Flushers == {"c1"}
Observers == {"c2"}

Next ==
  \/ \E t \in Observers, k \in ApiKeyOptions, e \in EnvApiKeys, l \in ObserveLabels :
       ObserveStart(t, k, e, l)
  \/ \E t \in Observers, r \in ValidateResponses, env \in Environments :
       ObserveResume(t, r, SysInfo, env)
  \/ \E now \in Times : End(now)
  \/ \E ev \in NewEvents : RecordEvent(ev)
  \/ Reset
  \/ \E t \in Flushers, o \in FlushOptions : FlushStart(t, o[1], o[2], o[3], o[4], o[5])
  \/ \E t \in Flushers, h \in HandlerOutcomes : ExporterSettled(t, h)
  \/ \E t \in Flushers, r \in TracesResponses : TracesSettled(t, r)
  \/ \E t \in Flushers, r \in UsageResponses : UsageSettled(t, r)

Spec == Init /\ [][Next]_vars

\* the label operations, interleaved with the operations of Next
LabelOps ==
  \/ \E merge \in BOOLEAN : SetLabels(<<L_team>>, merge)
  \/ AddLabel(L_team.key, L_team.val)
  \/ RemoveLabel(L_team.key)
  \/ GetLabels

\* SpecLabels draws the responses from one success and one failure each
NextLabels ==
  \/ \E t \in Observers : ObserveStart(t, "k1", Null, NullObj)
  \/ \E t \in Observers :
       \E r \in {HttpResponse(200, UsageBody(TRUE, TRUE, FALSE)), HttpResponse(401, NoBody)} :
         ObserveResume(t, r, SysInfo, << >>)
  \/ \E now \in Times : End(now)
  \/ \E now \in Times : RecordEvent(ProviderEvent(nextSpan, currentSpanId, now))
  \/ Reset
  \/ \E t \in Flushers, exporter \in BOOLEAN :
       FlushStart(t, Null, Null, TRUE, TRUE, exporter)
  \/ \E t \in Flushers, h \in {[kind |-> "throw"], [kind |-> "undefined"]} :
       ExporterSettled(t, h)
  \/ \E t \in Flushers, r \in {HttpResponse(200, NoBody), HttpResponse(401, NoBody)} :
       TracesSettled(t, r)
  \/ \E t \in Flushers :
       \E r \in {HttpResponse(200, UsageBody(TRUE, TRUE, FALSE)), HttpResponse(500, NoBody)} :
         UsageSettled(t, r)
  \/ LabelOps

SpecLabels == Init /\ [][NextLabels]_vars

(***************************************************************************)
(* The label operations on one session, with label maps that reach the     *)
(* limits: a reserved key, a malformed key, a value one character too      *)
(* long, a map with one bad pair, maps that fill the cap.                  *)
(***************************************************************************)
DigitChar(d) == ToString(d)

FillerKey(i) == <<"k", DigitChar(i \div 10), DigitChar(i % 10)>>

\* n valid labels k01, k02, ...
Filler(n) == [i \in 1..n |-> [key |-> FillerKey(i), val |-> <<"v">>]]

L_team_b == [key |-> L_team.key, val |-> <<"b">>]
L_long == [key |-> <<"k">>, val |-> [i \in 1..(LABEL_VALUE_MAX_LENGTH + 1) |-> "x"]]
L_constructor == [key |-> K_constructor, val |-> <<"x">>]

E_os == [key |-> LABEL_ENV_PREFIX \o <<"A","I","O","B","S","_","O","S">>, val |-> <<"e","n","v">>]

\* the explicit labels of observe(): none, one, and enough to reach the cap
\* with the four system labels, and to pass it
SessionLabels ==
  {NullObj, Some(Filler(LABEL_MAX_COUNT - 4)), Some(Filler(LABEL_MAX_COUNT - 3))}

LabelEnvironments == {<< >>, <<E_os>>}

LabelMaps ==
  {<<L_team>>, <<L_env, L_team_b>>, <<L_team, L_badkey>>, <<L_reserved>>, <<L_long>>}

LabelPairs == {L_team, L_badkey, L_reserved, L_long, L_constructor}

LabelKeys == {L_team.key, K_os, K_constructor}

\* one session at a time: observe() is called on an empty registry
NextLabelOps ==
  \/ /\ sessions = << >>
     /\ \E t \in Observers, l \in SessionLabels : ObserveStart(t, "k1", Null, l)
  \/ \E t \in Observers, env \in LabelEnvironments :
       ObserveResume(t, HttpResponse(200, UsageBody(TRUE, TRUE, FALSE)), SysInfo, env)
  \/ \E now \in Times : End(now)
  \/ Reset
  \/ \E m \in LabelMaps, merge \in BOOLEAN : SetLabels(m, merge)
  \/ \E l \in LabelPairs : AddLabel(l.key, l.val)
  \/ \E k \in LabelKeys : RemoveLabel(k)
  \/ GetLabels

SpecLabelOps == Init /\ [][NextLabelOps]_vars

(***************************************************************************)
(* buildTraceTree on its own: a batch of events is drawn, then the         *)
(* function is applied to it.  Span ids and parent span ids range over     *)
(* null and 1..MaxBatch, so that a batch can hold a missing parent, a span *)
(* id used twice, an event that is its own parent and a cycle.  request    *)
(* stands for the payload of the event: it tells the events of a batch     *)
(* apart, and the node keeps it ({ ...ev }).                               *)
(***************************************************************************)
TreeTimes == {1, 2}

TreeEvent(i, sp, parent, ts) == [request |-> i] @@ ProviderEvent(sp, parent, ts)

\* what is drawn for each event: <<span_id, parent_span_id, started_at>>
EventChoices == (0..MaxBatch) \X (0..MaxBatch) \X TreeTimes

Batch(n, c) == [i \in 1..n |-> TreeEvent(i, c[i][1], c[i][2], c[i][3])]

InitTree ==
  /\ sessions = << >>
  /\ events = << >>
  /\ activeSession = NullId
  /\ apiKey = Null
  /\ currentSpanId = NullId
  /\ nextSession = 1
  /\ nextSpan = 1
  /\ chain = [t \in Chains |-> IdleChain]
  /\ \E n \in 0..MaxBatch : \E c \in [1..n -> EventChoices] :
       last = Sync("batch", NoErr, Some(Batch(n, c)))

\* buildTraceTree(events)
ApplyBuildTraceTree ==
  /\ last.op = "batch"
  /\ LET evs == last.input.v
     IN last' = IF BuildTraceTreeThrows(evs)
                THEN Step("buildTraceTree", "call", "threw", <<"RangeError">>,
                          last.input, IdleChain)
                ELSE Step("buildTraceTree", "call", "returned", NoErr, last.input,
                          [IdleChain EXCEPT !.result = Some(BuildTraceTree(evs))])
  /\ UNCHANGED <<sessions, events, activeSession, apiKey, currentSpanId,
                 nextSession, nextSpan, chain>>

SpecTree == InitTree /\ [][ApplyBuildTraceTree]_vars

(***************************************************************************)
(* CompositeExporter.export.  An inner exporter is what its export() does: *)
(* "success" resolves to {success: true}, "failure" resolves to            *)
(* {success: false, error}, "throw" rejects.  The loop awaits one exporter *)
(* after the other; acc.invoked lists the indices whose export() ran.      *)
(***************************************************************************)
CompositeStart == [invoked |-> << >>, results |-> << >>, errors |-> << >>,
                   allSuccess |-> TRUE, threw |-> FALSE]

\* one iteration of the for loop: the try block and its catch
CompositeIteration(kind, i, stopOnError, acc) ==
  IF kind = "throw"
  THEN [acc EXCEPT !.invoked = Append(@, i),
                   !.allSuccess = FALSE,
                   !.errors = Append(@, i),
                   !.results = Append(@, [exporter |-> i, success |-> FALSE]),
                   !.threw = stopOnError]
  ELSE [acc EXCEPT !.invoked = Append(@, i),
                   !.results = Append(@, [exporter |-> i, success |-> kind = "success"]),
                   !.allSuccess = @ /\ kind = "success",
                   !.errors = IF kind = "success" THEN @ ELSE Append(@, i)]

RECURSIVE CompositeLoop(_, _, _, _)
CompositeLoop(exporters, i, stopOnError, acc) ==
  IF i > Len(exporters) \/ acc.threw THEN acc
  ELSE CompositeLoop(exporters, i + 1, stopOnError,
                     CompositeIteration(exporters[i], i, stopOnError, acc))

\* export(data): rethrows out of the loop, or returns the aggregate result
CompositeExport(exporters, stopOnError) ==
  LET acc == CompositeLoop(exporters, 1, stopOnError, CompositeStart)
  IN [threw |-> acc.threw,
      invoked |-> acc.invoked,
      result |-> IF acc.threw THEN NullObj
                 ELSE Some([success |-> acc.allSuccess,
                            exporters_count |-> Len(exporters),
                            results |-> acc.results,
                            error |-> acc.errors])]

(***************************************************************************)
(* CompositeExporter.export applied to drawn exporter lists.  The          *)
(* constructor rejects an empty list.                                      *)
(***************************************************************************)
ExporterKinds == {"success", "failure", "throw"}

InitComposite ==
  /\ sessions = << >>
  /\ events = << >>
  /\ activeSession = NullId
  /\ apiKey = Null
  /\ currentSpanId = NullId
  /\ nextSession = 1
  /\ nextSpan = 1
  /\ chain = [t \in Chains |-> IdleChain]
  /\ \E n \in 1..MaxExporters : \E e \in [1..n -> ExporterKinds] : \E stop \in BOOLEAN :
       last = Sync("exporters", NoErr, Some([exporters |-> e, stop_on_error |-> stop]))

\* composite.export(data)
ApplyCompositeExport ==
  /\ last.op = "exporters"
  /\ LET out == CompositeExport(last.input.v.exporters, last.input.v.stop_on_error)
     IN last' = Step("composite", "call", IF out.threw THEN "threw" ELSE "returned",
                     IF out.threw THEN <<"exporter">> ELSE NoErr, last.input,
                     [IdleChain EXCEPT !.result = Some(out)])
  /\ UNCHANGED <<sessions, events, activeSession, apiKey, currentSpanId,
                 nextSession, nextSpan, chain>>

SpecComposite == InitComposite /\ [][ApplyCompositeExport]_vars

(***************************************************************************)
(* flush() on a store that recordEvent has filled.  Event i is the i-th    *)
(* that recordEvent received (kept in its request field) and has span i;   *)
(* it is a provider event or a function event, with or without enh_prompt, *)
(* and names no parent, itself or another event of the store as parent.    *)
(* The first k events came in under session 1; observe() then started      *)
(* session 2, which received the rest.                                     *)
(***************************************************************************)
StoredKinds == {"provider", "function", "enh_prompt"}

StoredEvent(i, kind, parent, ts) ==
  [request |-> i] @@
    (IF kind = "provider" THEN ProviderEvent(i, parent, ts)
     ELSE FunctionEvent(i, parent, ts, kind = "enh_prompt"))

Stored(n, c) == [i \in 1..n |-> StoredEvent(i, c[i][1], c[i][2], c[i][3])]

StoredSession(id) == NewSession(id, MergedLabels(SysInfo, << >>, NullObj))

InitPayload ==
  /\ apiKey = "k1"
  /\ currentSpanId = NullId
  /\ nextSpan = 1
  /\ chain = [t \in Chains |-> IdleChain]
  /\ last = Sync("recordEvent", NoErr, NullObj)
  /\ \E n \in 0..MaxStored : \E c \in [1..n -> StoredKinds \X (0..n) \X TreeTimes] :
       \E k \in {n - 1, n} \cap (0..n) :
         IF k = n
         THEN /\ sessions = MapSet(<< >>, 1, StoredSession(1))
              /\ events = MapSet(<< >>, 1, Stored(n, c))
              /\ activeSession = 1
              /\ nextSession = 2
         ELSE /\ sessions = MapSet(MapSet(<< >>, 1, StoredSession(1)), 2, StoredSession(2))
              /\ events = MapSet(MapSet(<< >>, 1, SubSeq(Stored(n, c), 1, k)),
                                 2, SubSeq(Stored(n, c), k + 1, n))
              /\ activeSession = 2
              /\ nextSession = 3

\* flush({includeTraceTree, persist: false}) with its two requests answered
NextPayload ==
  \/ \E t \in Flushers, includeTraceTree \in BOOLEAN :
       FlushStart(t, Null, Null, includeTraceTree, FALSE, FALSE)
  \/ \E t \in Flushers : TracesSettled(t, HttpResponse(200, NoBody))
  \/ \E t \in Flushers : UsageSettled(t, HttpResponse(200, UsageBody(TRUE, TRUE, FALSE)))

SpecPayload == InitPayload /\ [][NextPayload]_vars

(***************************************************************************)
(* flush() calls that overlap: a flush() may be started on either chain    *)
(* while the other is suspended at a request of its own flush().           *)
(***************************************************************************)
NextFlushes ==
  \/ /\ sessions = << >>
     /\ \E t \in Observers : ObserveStart(t, "k1", Null, NullObj)
  \/ \E t \in Observers :
       ObserveResume(t, HttpResponse(200, UsageBody(TRUE, TRUE, FALSE)), SysInfo, << >>)
  \/ \E ev \in NewEvents : RecordEvent(ev)
  \/ \E t \in Chains, persist \in BOOLEAN : FlushStart(t, Null, Null, TRUE, persist, FALSE)
  \/ \E t \in Chains, r \in {HttpResponse(200, NoBody), HttpResponse(500, NoBody)} :
       TracesSettled(t, r)
  \/ \E t \in Chains : UsageSettled(t, HttpResponse(200, UsageBody(TRUE, TRUE, FALSE)))

SpecFlushes == Init /\ [][NextFlushes]_vars

(***************************************************************************)
(* observe()-wrapped functions and wrapped provider clients.  The calls in *)
(* progress of a chain are its frames, innermost last: a wrapped function  *)
(* that has started its span and runs its body, or a wrapped create() that *)
(* awaits the original method.  The OpenTelemetry context of the chain is  *)
(* read off the frames: startActiveSpan makes the new span the active one  *)
(* for the callback, synchronously (context.with) and across awaits        *)
(* (AsyncHooksContextManager).  A nested call has the flavour of the       *)
(* function it is made from: sync in sync, async in async.                 *)
(***************************************************************************)
Frame(kind, sync, sp, parent, ts) ==
  [kind |-> kind, sync |-> sync, span_id |-> sp, parent_span_id |-> parent,
   started_at |-> ts, settled |-> NullObj]

\* how the wrapped function, or the original client method, ends: it returns
\* a value (Null for null or undefined) or throws an Error
Returns(value) == [threw |-> FALSE, value |-> value, error |-> JsError(NoErr)]
Throws(error) == [threw |-> TRUE, value |-> Null, error |-> error]

\* the call record as the finally block sees it: the outcome of the
\* underlying call in its frame, and what the wrapper gives its caller
Settled(c, out, ret) ==
  [c EXCEPT !.frames[Len(c.frames)].settled = Some(out), !.result = ret]

\* extractResponse reads r.usage outside its try block: a TypeError when the
\* response is null or undefined
TypeErrorNull ==
  [name |-> "TypeError", message |-> <<"Cannot read properties of null">>]

ExtractResponseError(resp) == IF resp = Null THEN TypeErrorNull ELSE JsError(NoErr)

Top(frames) == frames[Len(frames)]

\* a call of the given flavour can be made: from the top level, or from the
\* body of a wrapped function of that flavour
CanCall(frames, sync) ==
  IF frames = << >> THEN TRUE
  ELSE IF Top(frames).kind = "manual" THEN TRUE
  ELSE Top(frames).kind = "function" /\ Top(frames).sync = sync

FunctionFrames(t) == SelectSeq(chain[t].frames, LAMBDA f : f.kind = "function")

GetCurrentParentSpanId_Collector(t) == currentSpanId

\* getCurrentParentSpanId: the span id of trace.getSpan(context.active())
GetCurrentParentSpanId(t) ==
  IF FunctionFrames(t) = << >> THEN NullId ELSE Top(FunctionFrames(t)).span_id

\* a synchronous wrapped function is running: nothing else gets to run
InSyncCall == \E t \in Chains : \E k \in 1..Len(chain[t].frames) : chain[t].frames[k].sync

\* asyncWrapper / syncWrapper up to fn.apply: the parent is read, the span started
CallObserved(t, sync, now) ==
  /\ nextSpan <= MaxCalls
  /\ Free(t)
  /\ CanCall(chain[t].frames, sync)
  /\ nextSpan' = nextSpan + 1
  /\ chain' = [chain EXCEPT ![t].frames =
                 Append(@, Frame("function", sync, nextSpan, GetCurrentParentSpanId(t), now))]
  /\ last' = Step("observed", "start", "suspended", NoErr, NullObj, chain'[t])
  /\ UNCHANGED <<sessions, events, activeSession, apiKey, currentSpanId, nextSession>>

\* the finally block of the wrapper, whether fn returned or threw: the span
\* ends and the FunctionEvent is handed to recordEvent
ReturnObserved(t, out) ==
  /\ chain[t].frames # << >>
  /\ Top(chain[t].frames).kind = "function"
  /\ LET f == Top(chain[t].frames)
         event == FunctionEvent(f.span_id, f.parent_span_id, f.started_at, FALSE)
     IN /\ events' = Recorded(event)
        /\ last' = IF out.threw
                   THEN Step("observed", "finally", "threw", out.error.message,
                             Some(event), Settled(chain[t], out, NullObj))
                   ELSE Step("observed", "finally", "returned", NoErr,
                             Some(event), Settled(chain[t], out, Some(out.value)))
  /\ chain' = [chain EXCEPT ![t].frames = SubSeq(@, 1, Len(@) - 1)]
  /\ UNCHANGED <<sessions, activeSession, apiKey, currentSpanId, nextSession, nextSpan>>

\* wrappedCreate up to the await of originalCreate
ProviderCall(t, now) ==
  /\ nextSpan <= MaxCalls
  /\ Free(t)
  /\ CanCall(chain[t].frames, FALSE)
  /\ nextSpan' = nextSpan + 1
  /\ chain' = [chain EXCEPT ![t].frames =
                 Append(@, Frame("provider", FALSE, nextSpan, GetCurrentSpanId, now))]
  /\ last' = Step("create", "start", "suspended", NoErr, NullObj, chain'[t])
  /\ UNCHANGED <<sessions, events, activeSession, apiKey, currentSpanId, nextSession>>

\* the finally block of wrappedCreate
ProviderSettled(t, out) ==
  /\ chain[t].frames # << >>
  /\ Top(chain[t].frames).kind = "provider"
  /\ LET f == Top(chain[t].frames)
         \* what the try block throws into the catch block
         e == IF out.threw THEN out.error ELSE ExtractResponseError(out.value)
         event == ProviderEvent(f.span_id, f.parent_span_id, f.started_at)
     IN /\ events' = Recorded(event)
        /\ last' = IF e.message # NoErr
                   THEN Step("create", "finally", "threw", e.message,
                             Some(event), Settled(chain[t], out, NullObj))
                   ELSE Step("create", "finally", "returned", NoErr,
                             Some(event), Settled(chain[t], out, Some(out.value)))
  /\ chain' = [chain EXCEPT ![t].frames = SubSeq(@, 1, Len(@) - 1)]
  /\ UNCHANGED <<sessions, activeSession, apiKey, currentSpanId, nextSession, nextSpan>>

\* the chain the wrapped calls are made on
Callers == {"c1"}

SpanIds == {NullId} \cup (1..MaxCalls)

Boom == JsError(<<"boom">>)

FunctionOutcomes == {Returns("result"), Throws(Boom)}

CreateOutcomes == {Returns("completion"), Returns(Null), Throws(Boom)}

NextSpans ==
  \/ /\ sessions = << >>
     /\ \E t \in Observers : ObserveStart(t, "k1", Null, NullObj)
  \/ /\ ~InSyncCall
     /\ \E t \in Observers :
          ObserveResume(t, HttpResponse(200, UsageBody(TRUE, TRUE, FALSE)), SysInfo, << >>)
  \/ \E t \in Callers, sync \in BOOLEAN, now \in Times : CallObserved(t, sync, now)
  \/ \E t \in Callers, out \in FunctionOutcomes : ReturnObserved(t, out)
  \/ \E t \in Callers, now \in Times : ProviderCall(t, now)
  \/ \E t \in Callers, out \in CreateOutcomes : ProviderSettled(t, out)
  \/ \E sp \in SpanIds : SetCurrentSpanId(sp)

SpecSpans == Init /\ [][NextSpans]_vars

(***************************************************************************)
(* Manual use of the span slot by a producer of events: it saves what      *)
(* setCurrentSpanId returns when it writes its own span, makes calls (a    *)
(* wrapped create() suspends the chain at its await), and writes the saved *)
(* value back.  A frame of kind "manual" holds the span written and, as    *)
(* parent_span_id, the value saved.                                        *)
(***************************************************************************)
\* const previous = collector.setCurrentSpanId(span)
PushSpan(t) ==
  /\ nextSpan <= MaxCalls
  /\ Free(t)
  /\ CanCall(chain[t].frames, FALSE)
  /\ SetSpan(nextSpan)
  /\ nextSpan' = nextSpan + 1
  /\ chain' = [chain EXCEPT ![t].frames =
                 Append(@, Frame("manual", FALSE, nextSpan, last'.call.result.v, NullTime))]
  /\ UNCHANGED <<sessions, events, activeSession, apiKey, nextSession>>

\* collector.setCurrentSpanId(previous)
PopSpan(t) ==
  /\ chain[t].frames # << >>
  /\ IF chain[t].frames = << >> THEN FALSE
     ELSE /\ Top(chain[t].frames).kind = "manual"
          /\ SetSpan(Top(chain[t].frames).parent_span_id)
  /\ chain' = [chain EXCEPT ![t].frames = SubSeq(@, 1, Len(@) - 1)]
  /\ UNCHANGED <<sessions, events, activeSession, apiKey, nextSession, nextSpan>>

\* collector.getCurrentSpanId()
GetSpan ==
  /\ last' = Step("getCurrentSpanId", "call", "returned", NoErr, NullObj,
                  [IdleChain EXCEPT !.result = Some(GetCurrentSpanId)])
  /\ UNCHANGED <<sessions, events, activeSession, apiKey, currentSpanId,
                 nextSession, nextSpan, chain>>

\* producers on the chains cs; the session is started on an observer chain
NextSlot(cs) ==
  \/ /\ sessions = << >>
     /\ \E t \in Observers : ObserveStart(t, "k1", Null, NullObj)
  \/ \E t \in Observers :
       ObserveResume(t, HttpResponse(200, UsageBody(TRUE, TRUE, FALSE)), SysInfo, << >>)
  \/ \E t \in cs : PushSpan(t)
  \/ \E t \in cs : PopSpan(t)
  \/ \E t \in cs, now \in Times : ProviderCall(t, now)
  \/ \E t \in cs, out \in {Returns("completion")} : ProviderSettled(t, out)
  \/ GetSpan
  \/ Reset

\* one producer
SpecSlot == Init /\ [][NextSlot({"c1"})]_vars
\* producers on both chains
SpecSlots == Init /\ [][NextSlot(Chains)]_vars

(***************************************************************************)
(* Properties.  last' describes the step taken: every action sets it.      *)
(***************************************************************************)
Store == <<sessions, events, activeSession>>

EmptyStore == sessions = << >> /\ events = << >> /\ activeSession = NullId

FlushEnded == last.op = "flush" /\ last.outcome \in {"returned", "threw"}

StoredEvents == ObservedAll(events)

\* C1 as stated: every flush() call that has ended, by returning or by
\* throwing, has cleared the store exactly once and leaves it empty.
C1_Original == FlushEnded => (last.call.clears = 1 /\ EmptyStore)

\* C1 amended: a flush() call clears the store exactly once, as its last step,
\* when it returns; a flush() that throws (the exporter threw, the trace
\* endpoint answered 401, the usage report failed) or that is suspended has
\* cleared nothing and leaves the store as it was; a flush() started right
\* after a flush() that returned assembles an empty payload.
C1_Amended ==
  [][/\ (last'.op = "flush" /\ last'.outcome = "returned")
          => (last'.call.clears = 1 /\ EmptyStore')
     /\ (last'.op = "flush" /\ last'.outcome \in {"threw", "suspended"})
          => (last'.call.clears = 0 /\ UNCHANGED Store)
     /\ (last.op = "flush" /\ last.outcome = "returned"
         /\ last'.op = "flush" /\ last'.stage = "start")
          => /\ last'.call.payload.sessions = << >>
             /\ last'.call.payload.events = << >>
             /\ last'.call.payload.function_events = << >>]_vars

\* a flush() has thrown at its usage report and its sessions and events are
\* still in memory
C1_Witness ==
  /\ last.op = "flush" /\ last.outcome = "threw" /\ last.stage = "usage"
  /\ Len(sessions) > 0
  /\ Len(StoredEvents) > 0

IsLabelError(err) ==
  err \in {MsgReservedKey, MsgInvalidLabelKey, MsgValueTooLong, MsgTooManyLabels}

\* C3: a failing observe() registers nothing: the registry, the event store and
\* the pointer are as before; it fails with MissingCredential when no credential
\* is available, InvalidApiKey on 401, QuotaServiceUnreachable on another
\* non-2xx, RateLimitExceeded on a success with is_rate_limited, a label error
\* on invalid explicit labels.
C3_FailedObserveRegistersNothing ==
  [][last'.op = "observe" =>
       /\ last'.outcome \in {"threw", "suspended"} => UNCHANGED Store
       /\ last'.stage = "start" =>
            (last'.outcome = "threw" <=> Falsy(apiKey'))
            /\ (last'.outcome = "threw" => last'.err = MsgKeyRequired)
       /\ (last'.stage = "resume" /\ last'.input.kind = "http") =>
            LET r == last'.input
            IN /\ r.status = 401 =>
                    last'.outcome = "threw" /\ Includes(last'.err, "Invalid API key")
               /\ (r.status # 401 /\ ~ResponseOk(r)) =>
                    /\ last'.outcome = "threw"
                    /\ Includes(last'.err, "Failed to connect to shepherd server: ")
               /\ (ResponseOk(r) /\ r.body.json /\ r.body.success /\ r.body.has_usage
                   /\ r.body.is_rate_limited) =>
                    last'.outcome = "threw" /\ Includes(last'.err, "Rate limit")
               /\ (ResponseOk(r) /\ r.body.json /\ ~r.body.is_rate_limited
                   /\ ~IsNull(last'.call.labels)
                   /\ \E i \in 1..Len(last'.call.labels.v) :
                        ~LABEL_KEY_PATTERN(last'.call.labels.v[i].key)) =>
                    last'.outcome = "threw" /\ IsLabelError(last'.err)]_vars

\* an observe() has failed on its explicit labels, after a successful
\* validation, while an earlier session is in memory
C3_Witness ==
  /\ last.op = "observe" /\ last.outcome = "threw" /\ last.stage = "resume"
  /\ IsLabelError(last.err)
  /\ Len(sessions) > 0
  /\ activeSession # NullId

\* C4: an observe() that completes while a session is active makes the new
\* session the active one and leaves the first session open (ended_at null) and
\* in memory with its events; a session leaves memory only by a flush() that
\* returns or by reset(), and the payload a flush() assembles holds every
\* session and every event in memory.
C4_ObserveWhileActive ==
  [][/\ (last'.op = "observe" /\ last'.outcome = "returned" /\ activeSession # NullId)
          => /\ activeSession' \notin {NullId, activeSession}
             /\ MapHas(sessions', activeSession)
             /\ MapGet(sessions', activeSession) = MapGet(sessions, activeSession)
             /\ MapGet(sessions', activeSession).ended_at = NullTime
             /\ MapGet(events', activeSession) = MapGet(events, activeSession)
     /\ (\E k \in MapKeys(sessions) : ~MapHas(sessions', k))
          => \/ last'.op = "reset"
             \/ last'.op = "flush" /\ last'.outcome = "returned"
     /\ (last'.op = "flush" /\ last'.stage = "start" /\ last'.err = NoErr)
          => /\ last'.call.payload.sessions = MapValues(sessions)
             /\ Len(last'.call.payload.events) + Len(last'.call.payload.function_events)
                  = Len(StoredEvents)
             /\ \A i \in 1..Len(StoredEvents) :
                  \E ev \in SeqRange(last'.call.payload.events)
                            \cup SeqRange(last'.call.payload.function_events) :
                    ev = StoredEvents[i]]_vars

\* a flush() has assembled a payload holding two open sessions, the first of
\* them superseded by the second and holding an event
C4_Witness ==
  /\ last.op = "flush" /\ last.stage = "start"
  /\ Len(last.call.payload.sessions) = 2
  /\ \A i \in 1..2 : last.call.payload.sessions[i].ended_at = NullTime
  /\ \E ev \in SeqRange(last.call.payload.events)
               \cup SeqRange(last.call.payload.function_events) :
       ev.session_id = last.call.payload.sessions[1].id

\* C5: in every state reached by interleaving observe, end, flush, reset,
\* recordEvent and the label operations, suspended observe and flush calls
\* included, the session registry and the event store have the same keys and
\* the active-session pointer is null or one of them.
C5_SameKeys ==
  /\ MapKeys(sessions) = MapKeys(events)
  /\ Len(sessions) = Cardinality(MapKeys(sessions))
  /\ Len(events) = Cardinality(MapKeys(events))
  /\ activeSession \in MapKeys(sessions) \cup {NullId}

\* a label was added to the second of two sessions while a flush() is suspended
C5_Witness ==
  /\ last.op = "addLabel" /\ last.outcome = "returned"
  /\ Len(sessions) = 2
  /\ activeSession = sessions[2].key
  /\ \E t \in Chains : chain[t].op = "flush" /\ chain[t].pc = "usage"

OpenSession(store, k) == MapHas(store, k) /\ MapGet(store, k).ended_at = NullTime

\* C6 as stated: every session in the registry other than the active one is
\* closed (ended_at is not null).
C6_Original ==
  \A k \in MapKeys(sessions) \ {activeSession} : ~OpenSession(sessions, k)

\* C6 amended: at most one session is active and it is open; a session in the
\* registry other than the active one is closed unless it was the active
\* session when an observe() completed and replaced the pointer: only such a
\* step leaves an open session that is not the active one.
C6_Amended ==
  [][/\ activeSession' # NullId => OpenSession(sessions', activeSession')
     /\ \A k \in MapKeys(sessions') \ {activeSession'} :
          OpenSession(sessions', k) =>
            \/ OpenSession(sessions, k) /\ k # activeSession
            \/ /\ k = activeSession
               /\ OpenSession(sessions, k)
               /\ last'.op = "observe" /\ last'.outcome = "returned"]_vars

\* an event was recorded while the registry holds an open session that is not the active one
C6_Witness ==
  /\ Len(sessions) = 2
  /\ activeSession = sessions[2].key
  /\ OpenSession(sessions, sessions[1].key)
  /\ last.op = "recordEvent"

UsageClass(status) ==
  IF status = 401 THEN "Invalid API key"
  ELSE IF status = 429 THEN "Rate limit"
  ELSE "Failed to record usage: HTTP "

\* C7 as stated: a usage report answered 401, 429 or another non-2xx status
\* makes flush() fail with InvalidApiKey, RateLimitExceeded, UsageReportFailed
\* respectively; and whenever the usage report of a flush({persist:true}) is in
\* flight the local file has been written and the remote flush attempted.
C7_Original ==
  /\ (last.op = "flush" /\ last.stage = "usage" /\ last.input.kind = "http"
      /\ ~ResponseOk(last.input))
       => /\ last.outcome = "threw"
          /\ Includes(last.err, UsageClass(last.input.status))
  /\ \A t \in Chains :
       (chain[t].pc = "usage" /\ chain[t].persist /\ ~chain[t].exporter)
         => /\ Len(chain[t].wrote) = 1
            /\ chain[t].traceCalls = 1

\* C8: a remote flush that fails otherwise than by a 401 (another non-2xx
\* status, a rejected fetch, a timeout, an unreadable body) does not make
\* flush() throw: the usage report (credential and non-empty payload) or the
\* clearing follows as after a success; a 401 makes flush() throw InvalidApiKey.
C8_RemoteFlushIsSoft ==
  [][(last'.op = "flush" /\ last'.stage = "traces") =>
       LET r == last'.input
           c == last'.call
       IN IF r.kind = "http" /\ r.status = 401
          THEN last'.outcome = "threw" /\ Includes(last'.err, "Invalid API key")
          ELSE /\ last'.outcome # "threw"
               /\ IF ~Falsy(apiKey) /\ c.traceCount > 0
                  THEN /\ last'.outcome = "suspended"
                       /\ c.pc = "usage"
                       /\ c.usageCalls = <<c.traceCount>>
                  ELSE /\ last'.outcome = "returned"
                       /\ c.clears = 1
                       /\ EmptyStore']_vars

\* a remote flush was rejected by the transport and the usage report is in flight
C8_Witness ==
  /\ last.op = "flush" /\ last.stage = "traces"
  /\ last.input.kind = "error"
  /\ last.outcome = "suspended"
  /\ last.call.pc = "usage"

\* C9 as stated: whatever the exporter's outcome, a thrown error included,
\* flush() goes on: it does not throw at the exporter, and it attempts the
\* remote flush when a credential is configured.
C9_Original ==
  (last.op = "flush" /\ last.stage = "exporter")
    => /\ last.outcome # "threw"
       /\ ~Falsy(apiKey) => last.call.traceCalls = 1

\* C9 amended: when the exporter returns a result, success or failure, flush()
\* attempts the remote flush if a credential is configured and, for a non-empty
\* batch, the usage report, then clears the store and returns the exporter's
\* result, unless the remote flush is answered 401 or the usage report fails;
\* when the exporter throws, flush() throws ExportHandlerFailed at once: no
\* remote flush, no usage report, nothing cleared.
C9_Amended ==
  [][/\ (last'.op = "flush" /\ last'.stage = "exporter") =>
          LET h == last'.input
              c == last'.call
          IN IF h.kind \in {"throw", "primitive"}
             THEN /\ last'.outcome = "threw"
                  /\ Includes(last'.err, "Custom export handler failed: ")
                  /\ c.traceCalls = 0 /\ c.usageCalls = << >> /\ c.clears = 0
                  /\ UNCHANGED Store
             ELSE /\ last'.outcome # "threw"
                  /\ c.result.v.success = (IF h.kind = "result" THEN h.success ELSE TRUE)
                  /\ IF ~Falsy(apiKey)
                     THEN last'.outcome = "suspended" /\ c.pc = "remote" /\ c.traceCalls = 1
                     ELSE last'.outcome = "returned" /\ c.clears = 1 /\ EmptyStore'
     /\ \A t \in Chains :
          (chain[t].exporter /\ chain[t].pc \in {"remote", "usage"}
           /\ chain'[t] # chain[t])
            => /\ last'.call.result = chain[t].result
               /\ last'.outcome = "returned" => (last'.call.clears = 1 /\ EmptyStore')
               /\ last'.outcome = "threw"
                    => \/ last'.stage = "traces" /\ last'.input.kind = "http"
                          /\ last'.input.status = 401
                       \/ last'.stage = "usage"]_vars

\* the exporter threw while a credential is configured and sessions are in memory
C9_Witness ==
  /\ last.op = "flush" /\ last.stage = "exporter" /\ last.outcome = "threw"
  /\ ~Falsy(apiKey)
  /\ Len(sessions) > 0

\* the step of flush() that decides on the remote flush: the local stage
\* without exporter, or the exporter's result
AfterLocal(l) ==
  /\ l.op = "flush"
  /\ \/ l.stage = "start" /\ ~l.call.exporter /\ l.err = NoErr
     \/ l.stage = "exporter"

\* C10 as stated: flush() contacts the trace endpoint iff a credential is
\* configured, and sends a usage report iff a credential is configured and the
\* payload holds an event.
C10_Original ==
  [][/\ AfterLocal(last') => (last'.call.traceCalls = 1 <=> ~Falsy(apiKey))
     /\ (last'.op = "flush" /\ last'.stage = "traces")
          => (Len(last'.call.usageCalls) = 1
                <=> (~Falsy(apiKey) /\ last'.call.traceCount > 0))]_vars

\* C10 amended: flush() contacts the trace endpoint iff a credential is
\* configured once its local stage is over and its exporter, if any, has not
\* thrown; it sends a usage report iff, the remote flush over and not answered
\* 401, a credential is configured and the payload holds an event, with
\* trace_count the number of events plus function_events of the payload; with no
\* credential, no exporter and persist:false it makes no remote call, writes no
\* file and returns null.
C10_Amended ==
  [][last'.op = "flush" =>
       LET c == last'.call
           sent == Len(c.usageCalls) = 1
       IN /\ c.traceCalls \in {0, 1}
          /\ c.usageCalls \in {<< >>, <<c.traceCount>>}
          /\ c.payload # NoPayload =>
               c.traceCount = Len(c.payload.events) + Len(c.payload.function_events)
          /\ (AfterLocal(last') /\ last'.outcome # "threw")
               => (c.traceCalls = 1 <=> ~Falsy(apiKey))
          /\ (AfterLocal(last') /\ last'.outcome = "threw")
               => (c.traceCalls = 0 /\ ~sent)
          /\ sent => c.traceCalls = 1 \/ last'.stage = "usage"
          /\ (last'.stage = "traces" /\ last'.outcome # "threw")
               => (sent <=> (~Falsy(apiKey) /\ c.traceCount > 0))
          /\ (last'.stage = "traces" /\ last'.outcome = "threw") => ~sent
          /\ (AfterLocal(last') /\ ~c.exporter /\ ~c.persist /\ Falsy(apiKey))
               => /\ last'.outcome = "returned"
                  /\ IsNull(c.result)
                  /\ c.wrote = << >>
                  /\ c.traceCalls = 0 /\ ~sent]_vars

\* the trace endpoint answered 401 to a flush() of a non-empty payload: no
\* usage report is sent although a credential is configured
C10_Witness ==
  /\ last.op = "flush" /\ last.stage = "traces" /\ last.outcome = "threw"
  /\ ~Falsy(apiKey)
  /\ last.call.traceCount > 0
  /\ last.call.usageCalls = << >>

\* C11: end() with an active session sets that session's ended_at, clears the
\* pointer and keeps every session and every recorded event in memory; end()
\* with no active session changes nothing; end() never throws, so an end()
\* right after an end() changes nothing.
C11_EndIdempotent ==
  [][last'.op = "end" =>
       /\ last'.outcome = "returned"
       /\ activeSession' = NullId
       /\ events' = events
       /\ UNCHANGED <<apiKey, currentSpanId, chain>>
       /\ IF activeSession = NullId
          THEN sessions' = sessions
          ELSE /\ [i \in 1..Len(sessions') |-> sessions'[i].key]
                    = [i \in 1..Len(sessions) |-> sessions[i].key]
               /\ \A k \in MapKeys(sessions) \ {activeSession} :
                    MapGet(sessions', k) = MapGet(sessions, k)
               /\ MapGet(sessions', activeSession).ended_at # NullTime
               /\ [MapGet(sessions', activeSession) EXCEPT !.ended_at = NullTime]
                    = MapGet(sessions, activeSession)
       /\ last.op = "end" => UNCHANGED Store]_vars

\* end() has closed a session that holds an event: the event is still in memory
C11_Witness ==
  /\ last.op = "end"
  /\ activeSession = NullId
  /\ \E i \in 1..Len(sessions) :
       /\ sessions[i].val.ended_at # NullTime
       /\ Len(MapGet(events, sessions[i].key)) > 0

LabelOpNames == {"setLabels", "addLabel", "removeLabel", "getLabels"}

\* C12: setLabels, addLabel, removeLabel and getLabels called while no session
\* is active (before the first observe(), after end(), after flush(), after
\* reset()) throw 'No active session' and change nothing in the collector.
C12_NoActiveSession ==
  [][(last'.op \in LabelOpNames /\ activeSession = NullId) =>
       /\ last'.outcome = "threw"
       /\ last'.err = MsgNoActive
       /\ UNCHANGED <<sessions, events, activeSession, apiKey, currentSpanId,
                      nextSession, nextSpan, chain>>]_vars

\* a label operation has been refused while the registry still holds the
\* session that end() closed
C12_Witness ==
  /\ last.op \in LabelOpNames
  /\ last.err = MsgNoActive
  /\ activeSession = NullId
  /\ \E i \in 1..Len(sessions) : sessions[i].val.ended_at # NullTime

\* the labels of the active session, {} when it has none
ActiveLabels == OrElse(MapGet(sessions, activeSession).labels, << >>)

IsReservedKey(k) == StartsWith(k, LABEL_RESERVED_PREFIX)

\* C13: a setLabels(m, merge) call that returns (m passed validation and the
\* result is within the cap) leaves the active session with these labels: with
\* merge, the keys of L and of m, each with m's value if m has the key and
\* with L's otherwise; without merge, the reserved-prefixed keys of L with
\* their values and the keys of m with m's values, and no other key.
C13_SetLabelsResult ==
  [][(last'.op = "setLabels" /\ last'.outcome = "returned") =>
       LET m == last'.input.labels
           L == ActiveLabels
           kept == IF last'.input.merge THEN MapKeys(L)
                   ELSE {k \in MapKeys(L) : IsReservedKey(k)}
           L2 == ActiveLabels'
       IN /\ activeSession' = activeSession
          /\ ~IsNull(MapGet(sessions', activeSession).labels)
          /\ MapKeys(L2) = kept \cup MapKeys(m)
          /\ Cardinality(MapKeys(L2)) = Len(L2)
          /\ \A k \in MapKeys(L2) :
               MapGet(L2, k) = IF MapHas(m, k) THEN MapGet(m, k) ELSE MapGet(L, k)]_vars

\* a merge has returned: the session holds m's pairs, a user label m does not
\* have, and its system labels
C13_Witness ==
  /\ last.op = "setLabels"
  /\ last.outcome = "returned"
  /\ last.input.merge
  /\ last.input.labels = <<L_env, L_team_b>>
  /\ activeSession # NullId
  /\ MapHas(ActiveLabels, K_constructor)
  /\ MapHas(ActiveLabels, K_os)
  /\ MapGet(ActiveLabels, L_team.key) = L_team_b.val

\* the pairs a setLabels or addLabel call was given
GivenPairs(step) ==
  IF step.op = "setLabels" THEN step.input.labels
  ELSE <<[key |-> step.input.key, val |-> step.input.val]>>

BadKey(k) == ~IsReservedKey(k) /\ ~LABEL_KEY_PATTERN(k)

BadPair(e) ==
  IsReservedKey(e.key) \/ BadKey(e.key) \/ Len(e.val) > LABEL_VALUE_MAX_LENGTH

\* C14: a setLabels, addLabel or removeLabel call that throws leaves the
\* sessions, and the rest of the collector, exactly as they were.  With an
\* active session, a call given a pair with a reserved key, a malformed key or
\* a value over 256 characters throws, also when the other pairs of the map
\* are valid; a setLabels call whose pairs are valid throws 'Too many labels'
\* when the merged (or replaced) labels would be more than 64; and the
\* message thrown names a cause the input has.
C14_NoPartialMutation ==
  [][(last'.op \in {"setLabels", "addLabel", "removeLabel"}) =>
       /\ last'.outcome = "threw" =>
            UNCHANGED <<sessions, events, activeSession, apiKey, currentSpanId,
                        nextSession, nextSpan, chain>>
       /\ (last'.op # "removeLabel" /\ activeSession # NullId) =>
            LET pairs == GivenPairs(last')
                L == ActiveLabels
                kept == IF last'.op = "setLabels" /\ ~last'.input.merge
                        THEN {k \in MapKeys(L) : IsReservedKey(k)}
                        ELSE MapKeys(L)
                invalid == \E i \in 1..Len(pairs) : BadPair(pairs[i])
                over == Cardinality(kept \cup MapKeys(pairs)) > LABEL_MAX_COUNT
                err == last'.err
            IN /\ invalid => err \in {MsgReservedKey, MsgInvalidLabelKey, MsgValueTooLong}
               /\ (last'.op = "setLabels" /\ ~invalid /\ over) => err = MsgTooManyLabels
               /\ err = MsgReservedKey => \E i \in 1..Len(pairs) : IsReservedKey(pairs[i].key)
               /\ err = MsgInvalidLabelKey => \E i \in 1..Len(pairs) : BadKey(pairs[i].key)
               /\ err = MsgValueTooLong =>
                    \E i \in 1..Len(pairs) : Len(pairs[i].val) > LABEL_VALUE_MAX_LENGTH
               /\ err \in {MsgTooManyLabels, MsgCannotAdd} => ~invalid /\ over]_vars

\* setLabels has refused a valid one-pair map because the session already
\* holds 64 labels: the cap is exceeded only after merging
C14_Witness ==
  /\ last.op = "setLabels"
  /\ last.err = MsgTooManyLabels
  /\ last.input.labels = <<L_team>>
  /\ activeSession # NullId
  /\ Len(ActiveLabels) = LABEL_MAX_COUNT
  /\ ~MapHas(ActiveLabels, L_team.key)

\* C15: every session of the registry holds at most 64 labels.
C15_Original ==
  \A i \in 1..Len(sessions) :
     Len(OrElse(sessions[i].val.labels, << >>)) <= LABEL_MAX_COUNT

\* the reserved-prefixed entries of a labels object
ReservedEntries(labels) == {labels[i] : i \in {j \in 1..Len(labels) : IsReservedKey(labels[j].key)}}

\* C16: setLabels (merge or not), addLabel and removeLabel, whatever they are
\* given and whether they return or throw, leave the reserved-prefixed labels
\* of the active session as they were, keys and values, and leave every other
\* session untouched.
C16_ReservedLabelsFrame ==
  [][(last'.op \in {"setLabels", "addLabel", "removeLabel"} /\ activeSession # NullId) =>
       /\ activeSession' = activeSession
       /\ MapKeys(sessions') = MapKeys(sessions)
       /\ ReservedEntries(ActiveLabels') = ReservedEntries(ActiveLabels)
       /\ \A id \in MapKeys(sessions) \ {activeSession} :
            MapGet(sessions', id) = MapGet(sessions, id)]_vars

\* a replacing setLabels has returned: the user labels are those of the map
\* and the four system labels are still there
C16_Witness ==
  /\ last.op = "setLabels"
  /\ last.outcome = "returned"
  /\ ~last.input.merge
  /\ activeSession # NullId
  /\ Cardinality(ReservedEntries(ActiveLabels)) = 4
  /\ Len(ActiveLabels) = 4 + Len(last.input.labels)

RECURSIVE Flatten(_)
\* the nodes of a forest, parents before children
Flatten(nodes) ==
  IF nodes = << >> THEN << >>
  ELSE <<Head(nodes)>> \o Flatten(Head(nodes).children) \o Flatten(Tail(nodes))

\* no span id is carried by two events of the batch
UniqueSpans(evs) ==
  \A i, j \in 1..Len(evs) :
     (Truthy(evs[i].span_id) /\ evs[i].span_id = evs[j].span_id) => i = j

\* the event a parent_span_id points to, when the batch has it
ParentIn(evs, i) ==
  {j \in 1..Len(evs) :
     Truthy(evs[i].parent_span_id) /\ evs[j].span_id = evs[i].parent_span_id}

RECURSIVE ClimbsTo(_, _, _, _)
\* following parent links from event i leads to event target
ClimbsTo(evs, i, target, fuel) ==
  \E j \in ParentIn(evs, i) :
     j = target \/ (fuel > 0 /\ ClimbsTo(evs, j, target, fuel - 1))

Acyclic(evs) == \A i \in 1..Len(evs) : ~ClimbsTo(evs, i, i, Len(evs))

\* C17: for a batch of events with unique span ids, buildTraceTree returns a
\* forest with exactly one node per event; a root has no parent_span_id or
\* one that no event of the batch carries, and every child sits under the
\* node whose span_id is its parent_span_id.
C17_Original ==
  (last.op = "buildTraceTree" /\ UniqueSpans(last.input.v)) =>
    /\ last.outcome = "returned"
    /\ LET evs == last.input.v
           tree == last.call.result.v
           nodes == Flatten(tree)
       IN /\ Len(nodes) = Len(evs)
          /\ \A i \in 1..Len(evs) :
               Cardinality({k \in 1..Len(nodes) : nodes[k].request = i}) = 1
          /\ \A r \in 1..Len(tree) :
               ~(Truthy(tree[r].parent_span_id) /\ tree[r].parent_span_id \in SpanKeys(evs))
          /\ \A k \in 1..Len(nodes) : \A c \in 1..Len(nodes[k].children) :
               /\ Truthy(nodes[k].children[c].parent_span_id)
               /\ nodes[k].children[c].parent_span_id = nodes[k].span_id

\* sorted by started_at, events with equal started_at in the order of the batch
SortedStable(nodes) ==
  \A k \in 1..(Len(nodes) - 1) :
     \/ nodes[k].started_at < nodes[k + 1].started_at
     \/ /\ nodes[k].started_at = nodes[k + 1].started_at
        /\ nodes[k].request < nodes[k + 1].request

\* C18: for a batch with unique span ids whose parent links form no cycle,
\* buildTraceTree returns a forest with as many nodes as the batch has
\* events, and the roots and the children of every node are in
\* non-decreasing started_at order, equal started_at in batch order.
C18_SortedForest ==
  (/\ last.op = "buildTraceTree"
   /\ UniqueSpans(last.input.v)
   /\ Acyclic(last.input.v)) =>
    /\ last.outcome = "returned"
    /\ LET nodes == Flatten(last.call.result.v)
       IN /\ Len(nodes) = Len(last.input.v)
          /\ SortedStable(last.call.result.v)
          /\ \A k \in 1..Len(nodes) : SortedStable(nodes[k].children)

\* A is the only root; its children C and B came in that order, B started
\* first: the tree is A -> [B, C]
C18_Witness ==
  /\ last.op = "buildTraceTree"
  /\ last.outcome = "returned"
  /\ Len(last.input.v) = 3
  /\ LET tree == last.call.result.v
     IN /\ Len(tree) = 1
        /\ tree[1].request = 1
        /\ Len(tree[1].children) = 2
        /\ tree[1].children[1].request = 3
        /\ tree[1].children[2].request = 2
        /\ tree[1].children[1].started_at < tree[1].children[2].started_at

\* every event in memory, batch after batch
AllStored == ObservedAll(events)

C20_Original ==
  [][(/\ last'.op = "create"
      /\ last'.stage = "finally"
      /\ Len(last'.call.frames) > 1) =>
       last'.input.v.parent_span_id =
         last'.call.frames[Len(last'.call.frames) - 1].span_id]_vars

\* C21: the finally block of a wrapped function or of a wrapped create()
\* hands one event, carrying the span of the call, to recordEvent; the caller
\* gets the value the underlying call returned, or the error it threw, with
\* or without an active session.
C21_Original ==
  [][(last'.op \in {"observed", "create"} /\ last'.stage = "finally") =>
       LET f == Top(last'.call.frames)
           out == f.settled.v
       IN /\ ~IsNull(last'.input)
          /\ last'.input.v.span_id = f.span_id
          /\ events' = Recorded(last'.input.v)
          /\ IF out.threw
             THEN last'.outcome = "threw" /\ last'.err = out.error.message
             ELSE last'.outcome = "returned" /\ last'.call.result = Some(out.value)]_vars

\* C22: the composite invokes its exporters one after the other in list
\* order; with stop_on_error false each is invoked exactly once, the result
\* has one entry per exporter and its success says that every exporter
\* succeeded; with stop_on_error true no exporter after the first one that
\* fails (returns success false, or throws) is invoked.
FirstFailure(e) ==
  IF \A i \in 1..Len(e) : e[i] = "success" THEN Len(e)
  ELSE CHOOSE i \in 1..Len(e) : e[i] # "success" /\ \A j \in 1..(i - 1) : e[j] = "success"

C22_Original ==
  last.op = "composite" =>
    LET e == last.input.v.exporters
        out == last.call.result.v
        invoked == out.invoked
    IN /\ invoked = [i \in 1..Len(invoked) |-> i]
       /\ ~last.input.v.stop_on_error =>
            /\ Len(invoked) = Len(e)
            /\ last.outcome = "returned"
            /\ Len(out.result.v.results) = Len(e)
            /\ out.result.v.success = (\A i \in 1..Len(e) : e[i] = "success")
       /\ last.input.v.stop_on_error => Len(invoked) = FirstFailure(e)

\* C23: setCurrentSpanId(x) stores x and returns what the slot held just
\* before; getCurrentSpanId() returns the slot, which only setCurrentSpanId
\* and reset() change (reset() makes it null, as it is initially); so with
\* one producer nesting save/set/restore every restore brings back the span
\* of the enclosing save (or null after a reset()), and the slot is null
\* again when the outermost restore is done.
ManualFrames(t) == SelectSeq(chain[t].frames, LAMBDA f : f.kind = "manual")

SlotNested ==
  LET m == ManualFrames("c1")
  IN /\ m = << >> => currentSpanId = NullId
     /\ m # << >> => currentSpanId \in {Top(m).span_id, NullId}
     /\ \A k \in 1..Len(m) :
          m[k].parent_span_id \in {NullId} \cup {m[j].span_id : j \in {k - 1} \cap (1..Len(m))}

SlotStep ==
  /\ last'.op = "setCurrentSpanId" =>
       /\ currentSpanId' = last'.input.v
       /\ last'.call.result = Some(currentSpanId)
  /\ last'.op = "getCurrentSpanId" =>
       /\ last'.call.result = Some(currentSpanId)
       /\ currentSpanId' = currentSpanId
  /\ last'.op = "reset" => currentSpanId' = NullId
  /\ currentSpanId' # currentSpanId => last'.op \in {"setCurrentSpanId", "reset"}

C23_SpanSlot == []SlotNested /\ [][SlotStep]_vars

\* an inner restore: the slot is back at the span of the enclosing save
C23_Witness ==
  /\ last.op = "setCurrentSpanId"
  /\ Len(ManualFrames("c1")) = 1
  /\ last.input = Some(Top(ManualFrames("c1")).span_id)
  /\ currentSpanId = Top(ManualFrames("c1")).span_id
  /\ last.call.result.v \notin {NullId, currentSpanId}

\* C24: a wrapped create() takes its parent from the one slot of the
\* process, whichever chain wrote it last, and its event is recorded with
\* that parent; so with two producers that each save the slot, write their
\* own span, suspend at a create() and restore, an event of one producer
\* can be recorded with the span of the other as parent_span_id.
C24_SlotShared ==
  [][/\ (last'.op = "create" /\ last'.stage = "start") =>
          Top(last'.call.frames).parent_span_id = currentSpanId
     /\ (last'.op = "create" /\ last'.stage = "finally") =>
          /\ last'.input.v.parent_span_id = Top(last'.call.frames).parent_span_id
          /\ events' = Recorded(last'.input.v)]_vars

\* the event just recorded by producer t, which has its own span open,
\* names the open span of producer u as its parent
C24_Witness ==
  /\ last.op = "create"
  /\ last.stage = "finally"
  /\ \E t, u \in Chains :
       /\ t # u
       /\ chain[t].frames = SubSeq(last.call.frames, 1, Len(last.call.frames) - 1)
       /\ ManualFrames(t) # << >>
       /\ \E k \in 1..Len(ManualFrames(u)) :
            ManualFrames(u)[k].span_id = last.input.v.parent_span_id
       /\ Truthy(activeSession)
       /\ MapHas(events, activeSession)
       /\ \E i \in 1..Len(MapGet(events, activeSession)) :
            MapGet(events, activeSession)[i] = last.input.v

\* C25: enh_prompt_traces of the payload holds the enh_prompt_id of every
\* function event of the batch recorded with enh_prompt = true, each once
\* and nothing else, a parent before its children and siblings by
\* started_at; it is null when there is no such event or when the payload
\* has no trace tree.
PayloadBatch == ObservedAll(events)

EnhPrompted ==
  {i \in 1..Len(PayloadBatch) :
     IsFunctionEvent(PayloadBatch[i]) /\ PayloadBatch[i].enh_prompt = TRUE}

EventOfTrace(id) == CHOOSE i \in EnhPrompted : PayloadBatch[i].enh_prompt_id = id

C25_Original ==
  (last.op = "flush" /\ last.stage = "start" /\ last.outcome = "suspended") =>
    LET payload == last.call.payload
        traces == payload.enh_prompt_traces
    IN IF IsNull(payload.trace_tree) \/ EnhPrompted = {}
       THEN IsNull(traces)
       ELSE /\ ~IsNull(traces)
            /\ Len(traces.v) = Cardinality(EnhPrompted)
            /\ {traces.v[k] : k \in 1..Len(traces.v)} =
                 {PayloadBatch[i].enh_prompt_id : i \in EnhPrompted}
            /\ \A a, b \in 1..Len(traces.v) :
                 a < b =>
                   LET ea == PayloadBatch[EventOfTrace(traces.v[a])]
                       eb == PayloadBatch[EventOfTrace(traces.v[b])]
                   IN /\ ea.parent_span_id # eb.span_id
                      /\ ea.parent_span_id = eb.parent_span_id =>
                           ea.started_at <= eb.started_at

\* C26: what a flush() removes from memory when it returns was part of the
\* payload it assembled: the events in the store at that moment are as many
\* as the payload had (traceCount, counted when the payload was built), so
\* no event that came in while the flush() was suspended is discarded.
C26_Original ==
  [][(last'.op = "flush" /\ last'.outcome = "returned") =>
       Len(ObservedAll(events)) = last'.call.traceCount]_vars

\* C27: when a flush() starts while another flush() is suspended, the two
\* payloads share no event, so no event is exported twice or counted in
\* two usage reports (traceCount is the number of events of a payload and
\* the number its usage report sends): the events of the two payloads
\* together are no more than the store holds.
C27_Original ==
  [][(last'.op = "flush" /\ last'.stage = "start") =>
       \A u \in Chains :
          (chain[u].op = "flush" /\ chain[u].pc # "idle") =>
            last'.call.traceCount + chain[u].traceCount <= Len(ObservedAll(events))]_vars

\* C28: an observe() that fails leaves the stored credential as it was, so
\* the session that is active keeps the credential it was started with: an
\* observe() that throws at once (no key given) has not changed apiKey, and
\* one that throws after the validation request does not change it either.
C28_Original ==
  [][(last'.op = "observe" /\ last'.outcome = "threw" /\ activeSession # NullId) =>
       apiKey' = apiKey]_vars

\* C29: when observe() has created a session, the labels of that session
\* whose key starts with the reserved prefix are the system labels with
\* the values the system computed, whatever the environment holds under
\* the label prefix.
C29_Original ==
  [][(last'.op = "observe" /\ last'.outcome = "returned") =>
       ReservedEntries(ActiveLabels') =
         {GetSystemLabels(SysInfo)[i] : i \in 1..Len(GetSystemLabels(SysInfo))}]_vars

\* C30 as stated: in the trace tree of a payload, siblings (and roots) with
\* the same started_at are in the order in which recordEvent received
\* them (the request field), whatever their kinds and sessions.
SiblingLists(tree) ==
  {tree} \cup {Flatten(tree)[k].children : k \in 1..Len(Flatten(tree))}

PayloadBuilt ==
  /\ last.op = "flush" /\ last.stage = "start" /\ last.outcome = "suspended"
  /\ ~IsNull(last.call.payload.trace_tree)

C30_Original ==
  PayloadBuilt =>
    \A l \in SiblingLists(last.call.payload.trace_tree.v) :
       \A a, b \in 1..Len(l) :
          (a < b /\ l[a].started_at = l[b].started_at) => l[a].request < l[b].request

\* C30 amended: siblings with the same started_at are in the order of the
\* batch that flush() hands to buildTraceTree: provider events before
\* function events, and events of one kind in the order in which
\* recordEvent received them, also across sessions.
KindRank(node) == IF IsFunctionEvent(node) THEN 1 ELSE 0

C30_Amended ==
  PayloadBuilt =>
    \A l \in SiblingLists(last.call.payload.trace_tree.v) :
       \A a, b \in 1..Len(l) :
          (a < b /\ l[a].started_at = l[b].started_at) =>
            \/ KindRank(l[a]) < KindRank(l[b])
            \/ KindRank(l[a]) = KindRank(l[b]) /\ l[a].request < l[b].request

\* two roots with the same started_at: the provider event comes first
\* although the function event, of another session, was recorded before it
C30_Witness ==
  /\ PayloadBuilt
  /\ LET tree == last.call.payload.trace_tree.v
     IN /\ Len(tree) = 2
        /\ tree[1].started_at = tree[2].started_at
        /\ ~IsFunctionEvent(tree[1]) /\ IsFunctionEvent(tree[2])
        /\ tree[2].request < tree[1].request
        /\ tree[1].session_id # tree[2].session_id

====
